---------------------------- MODULE Spec2Model ----------------------------
(***************************************************************************)
(* A model of the dedup registry (daily_paper/fetch.py), of the text and   *)
(* time helpers it uses (daily_paper/utils.py) and of the selection engine *)
(* (daily_paper/summarize.py).                                             *)
(*                                                                         *)
(* Text is a sequence of code points (Python str), time is a number of     *)
(* minutes since an arbitrary epoch (an aware UTC datetime), a float that  *)
(* is compared with a threshold is the exact fraction <<num, den>>.        *)
(*                                                                         *)
(* Five specifications: Spec is any sequence of _register_entry calls on   *)
(* one registry, SpecFetch is fetch_feeds run over feeds that yield the    *)
(* entries of a corpus, SpecSelect is one call of select_top_items on a    *)
(* pool drawn from a corpus of its own, with a ranker that replies with    *)
(* one of a set of texts or raises, SpecProbe is one call of               *)
(* normalize_url, title_similarity, _is_better_entry or _parse_selection   *)
(* on arguments drawn from small sets, and SpecPost is one call of         *)
(* OpenAIClient._post_with_retries against a server that answers with any  *)
(* status, times out or drops the connection.                              *)
(*                                                                         *)
(* Left out: publish times without a time zone (comparing one with an      *)
(* aware time raises TypeError in Python), digits other than 0-9 in the    *)
(* ranker's reply, and the rounding of float arithmetic: the scores of the *)
(* corpus entries differ by far more than a rounding error.                *)
(***************************************************************************)
EXTENDS Integers, Sequences, FiniteSets, TLC

(***************************************************************************)
(* Python str helpers                                                      *)
(***************************************************************************)

\* str.isspace() / the regex class \s, on the code points the model uses
IsSpace(c) == c \in {9, 10, 11, 12, 13, 28, 29, 30, 31, 32, 133, 160}

IsDigit(c) == c \in 48..57

IsUpper(c) == c \in 65..90

IsLower(c) == c \in 97..122

\* the regex class \w: letters, digits and the underscore (ASCII, Cyrillic)
IsWord(c) == IsDigit(c) \/ IsUpper(c) \/ IsLower(c) \/ c = 95 \/ c \in 1040..1103

\* str.lower() on one code point (ASCII and Cyrillic capitals)
LowerChar(c) == IF IsUpper(c) \/ c \in 1040..1071 THEN c + 32 ELSE c

lower(text) == [i \in 1..Len(text) |-> LowerChar(text[i])]

\* str.lstrip() / str.rstrip() / str.strip()
RECURSIVE lstrip(_)
lstrip(text) ==
    IF text # << >> /\ IsSpace(Head(text)) THEN lstrip(Tail(text)) ELSE text

RECURSIVE rstrip(_)
rstrip(text) ==
    IF text # << >> /\ IsSpace(text[Len(text)])
    THEN rstrip(SubSeq(text, 1, Len(text) - 1))
    ELSE text

strip(text) == lstrip(rstrip(text))

\* re.sub(r"\s+", " ", text): every maximal run of whitespace becomes one space
CollapseSpaces(text) ==
    SelectSeq([i \in 1..Len(text) |->
                 IF ~IsSpace(text[i]) THEN text[i]
                 ELSE IF i > 1 /\ IsSpace(text[i - 1]) THEN -1
                 ELSE 32],
              LAMBDA c : c # -1)

\* str.split(): the maximal runs of non-whitespace, in order
RECURSIVE FirstWordLen(_)
FirstWordLen(text) ==
    IF text = << >> \/ IsSpace(Head(text)) THEN 0 ELSE 1 + FirstWordLen(Tail(text))

RECURSIVE split(_)
split(text) ==
    LET t == lstrip(text)
        n == FirstWordLen(t)
    IN  IF t = << >> THEN << >>
        ELSE <<SubSeq(t, 1, n)>> \o split(SubSeq(t, n + 1, Len(t)))

Range(seq) == {seq[i] : i \in 1..Len(seq)}

\* needle in haystack (Python's substring test on str)
Contains(haystack, needle) ==
    \E i \in 0..(Len(haystack) - Len(needle)) :
        SubSeq(haystack, i + 1, i + Len(needle)) = needle

\* "\n".join(parts)
RECURSIVE JoinLines(_)
JoinLines(parts) ==
    IF parts = << >> THEN << >>
    ELSE IF Len(parts) = 1 THEN parts[1]
         ELSE parts[1] \o <<10>> \o JoinLines(Tail(parts))

(***************************************************************************)
(* Fractions: a Python float that is the quotient of two small integers    *)
(***************************************************************************)

Frac(n, d) == <<n, d>>

\* a value computed once and used under a name: Body(value)
With(value, Body(_)) == Body(value)

FracGe(x, y) == x[1] * y[2] >= y[1] * x[2]

FracGt(x, y) == x[1] * y[2] > y[1] * x[2]

FracMax(x, y) == IF FracGe(x, y) THEN x ELSE y

(***************************************************************************)
(* utils.py: text similarity                                               *)
(***************************************************************************)

\* _normalize_text: lower-case, every character outside a-z 0-9 \s becomes a
\* space, whitespace runs collapse, the ends are trimmed
_normalize_text(text) ==
    LET lowered == lower(text)
        cleaned == [i \in 1..Len(lowered) |->
                      IF IsLower(lowered[i]) \/ IsDigit(lowered[i]) \/ IsSpace(lowered[i])
                      THEN lowered[i] ELSE 32]
    IN  strip(CollapseSpaces(cleaned))

\* the length of the common run of a[i..] and b[j..] (0-based, half-open bounds)
RECURSIVE CommonRun(_, _, _, _, _, _)
CommonRun(a, i, ahi, b, j, bhi) ==
    IF i < ahi /\ j < bhi /\ a[i + 1] = b[j + 1]
    THEN 1 + CommonRun(a, i + 1, ahi, b, j + 1, bhi)
    ELSE 0

\* difflib.SequenceMatcher.find_longest_match without junk: the longest block,
\* of those the one starting earliest in a, of those the one earliest in b
find_longest_match(a, alo, ahi, b, blo, bhi) ==
    LET sizes == {CommonRun(a, i, ahi, b, j, bhi) : i \in alo..(ahi - 1), j \in blo..(bhi - 1)}
        bestsize == CHOOSE k \in sizes : \A q \in sizes : q <= k
        starts == {i \in alo..(ahi - 1) :
                     \E j \in blo..(bhi - 1) : CommonRun(a, i, ahi, b, j, bhi) = bestsize}
        besti == CHOOSE i \in starts : \A q \in starts : i <= q
        bestj == CHOOSE j \in blo..(bhi - 1) :
                     /\ CommonRun(a, besti, ahi, b, j, bhi) = bestsize
                     /\ \A q \in blo..(j - 1) : CommonRun(a, besti, ahi, b, q, bhi) # bestsize
    IN  IF sizes = {} \/ bestsize = 0 THEN <<alo, blo, 0>>
        ELSE <<besti, bestj, bestsize>>

\* difflib.SequenceMatcher.get_matching_blocks: the total size of the blocks
RECURSIVE MatchingSize(_, _, _, _, _, _)
MatchingSize(a, alo, ahi, b, blo, bhi) ==
    With(find_longest_match(a, alo, ahi, b, blo, bhi), LAMBDA m :
        LET i == m[1]
            j == m[2]
            k == m[3]
        IN  IF k = 0 THEN 0
            ELSE k + (IF alo < i /\ blo < j
                      THEN MatchingSize(a, alo, i, b, blo, j) ELSE 0)
                   + (IF i + k < ahi /\ j + k < bhi
                      THEN MatchingSize(a, i + k, ahi, b, j + k, bhi) ELSE 0))

\* difflib.SequenceMatcher(None, a, b).ratio(), for texts under 200 characters
\* (autojunk only acts from 200 on)
SequenceRatio(a, b) ==
    IF Len(a) + Len(b) = 0 THEN Frac(1, 1)
    ELSE Frac(2 * MatchingSize(a, 0, Len(a), b, 0, Len(b)), Len(a) + Len(b))

Min(x, y) == IF x <= y THEN x ELSE y

Max(x, y) == IF x >= y THEN x ELSE y

\* _token_sequence_similarity: max(token overlap, sequence ratio)
_token_sequence_similarity(left_norm, right_norm) ==
    LET left_tokens == Range(split(left_norm))
        right_tokens == Range(split(right_norm))
        overlap == Frac(Cardinality(left_tokens \cap right_tokens),
                        Max(1, Min(Cardinality(left_tokens), Cardinality(right_tokens))))
    IN  FracMax(overlap, SequenceRatio(left_norm, right_norm))

title_similarity(left, right) ==
    LET left_norm == _normalize_text(left)
        right_norm == _normalize_text(right)
    IN  IF left_norm = << >> \/ right_norm = << >> THEN Frac(0, 1)
        ELSE _token_sequence_similarity(left_norm, right_norm)

text_similarity(left, right) ==
    LET left_norm == _normalize_text(left)
        right_norm == _normalize_text(right)
    IN  IF left_norm = << >> \/ right_norm = << >> THEN Frac(0, 1)
        ELSE _token_sequence_similarity(left_norm, right_norm)

CONTENT_SIMILARITY_CHARS == 600

\* text[:n]
Prefix(text, n) == SubSeq(text, 1, Min(n, Len(text)))

FracAdd(x, y) == <<x[1] * y[2] + y[1] * x[2], x[2] * y[2]>>

\* score * weight, the weight in hundredths
FracTimes(x, w) == <<x[1] * w, x[2]>>

\* weighted_story_similarity: the weights are 0.50, 0.50 and 0.10, written in
\* hundredths; the result is weighted_total / total_weight
weighted_story_similarity(title_left, title_right, summary_left, summary_right, content_left, content_right) ==
    LET title_score == title_similarity(title_left, title_right)
        use_summary == strip(summary_left) # << >> /\ strip(summary_right) # << >>
        use_content == content_left # << >> /\ content_right # << >>
        summary_part ==
            IF use_summary
            THEN FracTimes(text_similarity(summary_left, summary_right), 50)
            ELSE Frac(0, 1)
        content_part ==
            IF use_content
            THEN FracTimes(text_similarity(Prefix(content_left, CONTENT_SIMILARITY_CHARS),
                                           Prefix(content_right, CONTENT_SIMILARITY_CHARS)), 10)
            ELSE Frac(0, 1)
        total_weight == 50 + (IF use_summary THEN 50 ELSE 0) + (IF use_content THEN 10 ELSE 0)
        weighted_total == FracAdd(FracAdd(FracTimes(title_score, 50), summary_part), content_part)
    IN  Frac(weighted_total[1], weighted_total[2] * total_weight)

(***************************************************************************)
(* A backtracking matcher for the regular expressions of utils.py.  A      *)
(* pattern is a sequence of nodes: [t |-> "b"] is \b, [t |-> "cls"] is a   *)
(* character class repeated lo..hi times (greedy), [t |-> "grp"] is a      *)
(* non-capturing group repeated lo..hi times (greedy).                     *)
(***************************************************************************)

Cls(chars, lo, hi) == [t |-> "cls", chars |-> chars, lo |-> lo, hi |-> hi, body |-> << >>]

Grp(body, lo, hi) == [t |-> "grp", chars |-> {}, lo |-> lo, hi |-> hi, body |-> body]

Bnd == [t |-> "b", chars |-> {}, lo |-> 0, hi |-> 0, body |-> << >>]

\* (?:word|word|...): one of the literal words, tried in the order written
Alt(words) == [t |-> "alt", chars |-> {}, lo |-> 1, hi |-> 1, body |-> words]

Many == 1000

Digits == 48..57

Uppers == 65..90

Lowers == 97..122

Spaces == {9, 10, 11, 12, 13, 28, 29, 30, 31, 32, 133, 160}

\* \b at pos (0-based): exactly one side is a word character
AtBoundary(text, pos) ==
    (pos > 0 /\ IsWord(text[pos])) # (pos < Len(text) /\ IsWord(text[pos + 1]))

RECURSIVE ClassRun(_, _, _, _)
ClassRun(chars, text, pos, hi) ==
    IF hi > 0 /\ pos < Len(text) /\ text[pos + 1] \in chars
    THEN 1 + ClassRun(chars, text, pos + 1, hi - 1)
    ELSE 0

RECURSIVE Flatten(_)
Flatten(seqs) == IF seqs = << >> THEN << >> ELSE Head(seqs) \o Flatten(Tail(seqs))

\* the end positions of the matches of nodes at pos, in the order the
\* backtracking matcher tries them: the first is the match re returns
\* text[pos:].startswith(word), pos counted from 0
StartsAt(text, pos, word) ==
    /\ pos + Len(word) <= Len(text)
    /\ SubSeq(text, pos + 1, pos + Len(word)) = word

RECURSIVE Ends(_, _, _)
Ends(nodes, text, pos) ==
    IF nodes = << >> THEN <<pos>>
    ELSE LET n == Head(nodes)
             rest == Tail(nodes)
         IN  CASE n.t = "b" ->
                    IF AtBoundary(text, pos) THEN Ends(rest, text, pos) ELSE << >>
               [] n.t = "cls" ->
                    LET run == ClassRun(n.chars, text, pos, n.hi)
                    IN  IF run < n.lo THEN << >>
                        ELSE Flatten([k \in 1..(run - n.lo + 1) |->
                                        Ends(rest, text, pos + run - k + 1)])
               [] n.t = "grp" ->
                    LET once == IF n.hi > 0 THEN Ends(n.body, text, pos) ELSE << >>
                        again == Grp(n.body, Max(n.lo - 1, 0), n.hi - 1)
                        more == Flatten([k \in 1..Len(once) |->
                                           IF once[k] > pos
                                           THEN Ends(<<again>> \o rest, text, once[k])
                                           ELSE << >>])
                    IN  more \o (IF n.lo = 0 THEN Ends(rest, text, pos) ELSE << >>)
               [] n.t = "alt" ->
                    Flatten([k \in 1..Len(n.body) |->
                               IF StartsAt(text, pos, n.body[k])
                               THEN Ends(rest, text, pos + Len(n.body[k]))
                               ELSE << >>])

\* re.findall(pattern, text) for a pattern without capturing groups
RECURSIVE findall(_, _, _)
findall(nodes, text, pos) ==
    IF pos >= Len(text) THEN << >>
    ELSE LET e == Ends(nodes, text, pos)
         IN  IF e # << >> /\ e[1] > pos
             THEN <<SubSeq(text, pos + 1, e[1])>> \o findall(nodes, text, e[1])
             ELSE findall(nodes, text, pos + 1)

\* r"\b\d+(?:[.,]\d+)?\b"
NumberPattern ==
    <<Bnd, Cls(Digits, 1, Many), Grp(<<Cls({44, 46}, 1, 1), Cls(Digits, 1, Many)>>, 0, 1), Bnd>>

\* r"\b\d{4}-\d{1,2}-\d{1,2}\b"
IsoDatePattern ==
    <<Bnd, Cls(Digits, 4, 4), Cls({45}, 1, 1), Cls(Digits, 1, 2), Cls({45}, 1, 1),
      Cls(Digits, 1, 2), Bnd>>

\* r"\b\d{1,2}/\d{1,2}/\d{2,4}\b"
SlashDatePattern ==
    <<Bnd, Cls(Digits, 1, 2), Cls({47}, 1, 1), Cls(Digits, 1, 2), Cls({47}, 1, 1),
      Cls(Digits, 2, 4), Bnd>>

\* r"\b[A-Z][a-z]{2,}(?:\s+[A-Z][a-z]{2,})*\b"
NamePattern ==
    <<Bnd, Cls(Uppers, 1, 1), Cls(Lowers, 2, Many),
      Grp(<<Cls(Spaces, 1, Many), Cls(Uppers, 1, 1), Cls(Lowers, 2, Many)>>, 0, Many), Bnd>>

\* extract_comparison_metadata
extract_comparison_metadata(text) ==
    IF text = << >> THEN {}
    ELSE LET metadata == Range(findall(NumberPattern, text, 0))
                         \cup Range(findall(IsoDatePattern, text, 0))
                         \cup Range(findall(SlashDatePattern, text, 0))
                         \cup Range(findall(NamePattern, text, 0))
         IN  {lower(strip(item)) : item \in {m \in metadata : strip(m) # << >>}}

\* metadata_overlap_ratio
metadata_overlap_ratio(left, right) ==
    IF left = {} \/ right = {} THEN Frac(0, 1)
    ELSE Frac(Cardinality(left \cap right), Min(Cardinality(left), Cardinality(right)))

\* compact_text(parts, max_chars); 8230 is the ellipsis character
compact_text(parts, max_chars) ==
    LET kept == SelectSeq(parts, LAMBDA part : part # << >>)
        stripped == [i \in 1..Len(kept) |-> strip(kept[i])]
        combined == CollapseSpaces(strip(JoinLines(stripped)))
    IN  IF Len(combined) <= max_chars THEN combined
        ELSE rstrip(SubSeq(combined, 1, max_chars - 1)) \o <<8230>>

(***************************************************************************)
(* urllib.parse, as far as utils.py uses it, on ASCII URLs                 *)
(***************************************************************************)

\* text.find(c, start): the 0-based index of the first c at or after start, or -1
RECURSIVE Find(_, _, _)
Find(text, c, start) ==
    IF start >= Len(text) THEN -1
    ELSE IF text[start + 1] = c THEN start
         ELSE Find(text, c, start + 1)

\* text.rfind(c)
RECURSIVE RFind(_, _, _)
RFind(text, c, end) ==
    IF end <= 0 THEN -1
    ELSE IF text[end] = c THEN end - 1
         ELSE RFind(text, c, end - 1)

\* text[i:j] with 0-based half-open bounds
Slice(text, i, j) == SubSeq(text, i + 1, j)

From(text, i) == SubSeq(text, i + 1, Len(text))

\* text.split(c), every piece
RECURSIVE SplitOn(_, _)
SplitOn(text, c) ==
    LET i == Find(text, c, 0)
    IN  IF i < 0 THEN <<text>>
        ELSE <<Slice(text, 0, i)>> \o SplitOn(From(text, i + 1), c)

\* the scheme names of urllib.parse.uses_params (the empty scheme included)
uses_params ==
    {<<>>,
    <<102, 116, 112>>,
    <<104, 100, 108>>,
    <<112, 114, 111, 115, 112, 101, 114, 111>>,
    <<104, 116, 116, 112>>,
    <<105, 109, 97, 112>>,
    <<104, 116, 116, 112, 115>>,
    <<115, 104, 116, 116, 112>>,
    <<114, 116, 115, 112>>,
    <<114, 116, 115, 112, 115>>,
    <<114, 116, 115, 112, 117>>,
    <<115, 105, 112>>,
    <<115, 105, 112, 115>>,
    <<109, 109, 115>>,
    <<115, 102, 116, 112>>,
    <<116, 101, 108>>}

\* the scheme names of urllib.parse.uses_netloc (the empty scheme included)
uses_netloc ==
    {<<>>,
    <<102, 116, 112>>,
    <<104, 116, 116, 112>>,
    <<103, 111, 112, 104, 101, 114>>,
    <<110, 110, 116, 112>>,
    <<116, 101, 108, 110, 101, 116>>,
    <<105, 109, 97, 112>>,
    <<119, 97, 105, 115>>,
    <<102, 105, 108, 101>>,
    <<109, 109, 115>>,
    <<104, 116, 116, 112, 115>>,
    <<115, 104, 116, 116, 112>>,
    <<115, 110, 101, 119, 115>>,
    <<112, 114, 111, 115, 112, 101, 114, 111>>,
    <<114, 116, 115, 112>>,
    <<114, 116, 115, 112, 115>>,
    <<114, 116, 115, 112, 117>>,
    <<114, 115, 121, 110, 99>>,
    <<115, 118, 110>>,
    <<115, 118, 110, 43, 115, 115, 104>>,
    <<115, 102, 116, 112>>,
    <<110, 102, 115>>,
    <<103, 105, 116>>,
    <<103, 105, 116, 43, 115, 115, 104>>,
    <<119, 115>>,
    <<119, 115, 115>>}

\* urllib.parse.scheme_chars: letters, digits, + - .
IsSchemeChar(c) == IsLower(c) \/ IsUpper(c) \/ IsDigit(c) \/ c \in {43, 45, 46}

\* url.lstrip(_WHATWG_C0_CONTROL_OR_SPACE)
RECURSIVE LStripC0(_)
LStripC0(url) == IF url # << >> /\ Head(url) \in 0..32 THEN LStripC0(Tail(url)) ELSE url

\* the bracketed hosts ipaddress.ip_address accepts as IPv6, as far as the
\* model's URLs go: "::1"
ValidBracketedHost(host) == host = <<58, 58, 49>>

\* urlsplit: [ok, scheme, netloc, path, query, fragment]; ok = FALSE is ValueError
urlsplit(raw) ==
    With(SelectSeq(LStripC0(raw), LAMBDA c : c \notin {9, 10, 13}), LAMBDA url0 :
    With(Find(url0, 58, 0), LAMBDA i :
    With(/\ i > 0
         /\ IsLower(url0[1]) \/ IsUpper(url0[1])
         /\ \A k \in 1..i : IsSchemeChar(url0[k]), LAMBDA has_scheme :
    With(IF has_scheme THEN From(url0, i + 1) ELSE url0, LAMBDA url1 :
    With(Len(url1) >= 2 /\ url1[1] = 47 /\ url1[2] = 47, LAMBDA has_netloc :
    With({d \in {Find(url1, 47, 2), Find(url1, 63, 2), Find(url1, 35, 2)} : d >= 0},
         LAMBDA delims :
    With(IF delims = {} THEN Len(url1)
         ELSE CHOOSE d \in delims : \A e \in delims : d <= e, LAMBDA delim :
    With(IF has_netloc THEN Slice(url1, 2, delim) ELSE << >>, LAMBDA netloc :
    With(IF has_netloc THEN From(url1, delim) ELSE url1, LAMBDA url2 :
    With(Find(netloc, 91, 0), LAMBDA open :
    With(Find(netloc, 93, 0), LAMBDA close :
    With(Find(netloc, 93, open + 1), LAMBDA closing :
    With(Slice(netloc, open + 1, IF closing < 0 THEN Len(netloc) ELSE closing),
         LAMBDA bracketed :
    With(Find(url2, 35, 0), LAMBDA hash :
    With(IF hash >= 0 THEN Slice(url2, 0, hash) ELSE url2, LAMBDA url3 :
    With(Find(url3, 63, 0), LAMBDA quest :
        [ok |-> ~(\/ (open >= 0) # (close >= 0)
                  \/ open >= 0 /\ close >= 0 /\ ~ValidBracketedHost(bracketed)),
         scheme |-> IF has_scheme THEN lower(Slice(url0, 0, i)) ELSE << >>,
         netloc |-> netloc,
         path |-> IF quest >= 0 THEN Slice(url3, 0, quest) ELSE url3,
         query |-> IF quest >= 0 THEN From(url3, quest + 1) ELSE << >>,
         fragment |-> IF hash >= 0 THEN From(url2, hash + 1) ELSE << >>]))))))))))))))))

\* urlparse: urlsplit, then the path's params split off for the schemes that
\* have them: [ok, scheme, netloc, path, params, query, fragment]
urlparse(raw) ==
    With(urlsplit(raw), LAMBDA r :
    With(RFind(r.path, 47, Len(r.path)), LAMBDA slash :
    With(IF slash >= 0 THEN Find(r.path, 59, slash) ELSE Find(r.path, 59, 0), LAMBDA semi :
    With(r.scheme \in uses_params /\ Find(r.path, 59, 0) >= 0 /\ semi >= 0,
         LAMBDA split_params :
        [ok |-> r.ok, scheme |-> r.scheme, netloc |-> r.netloc,
         path |-> IF split_params THEN Slice(r.path, 0, semi) ELSE r.path,
         params |-> IF split_params THEN From(r.path, semi + 1) ELSE << >>,
         query |-> r.query, fragment |-> r.fragment]))))

\* _hostinfo: <<hostname, port>> as texts, the port empty when there is none
_hostinfo(netloc) ==
    With(RFind(netloc, 64, Len(netloc)), LAMBDA at :
    With(IF at >= 0 THEN From(netloc, at + 1) ELSE netloc, LAMBDA hostinfo :
    With(Find(hostinfo, 91, 0), LAMBDA open :
    With(From(hostinfo, open + 1), LAMBDA bracketed :
    With(Find(bracketed, 93, 0), LAMBDA close :
    With(IF close >= 0 THEN From(bracketed, close + 1) ELSE << >>, LAMBDA after :
    With(Find(after, 58, 0), LAMBDA colon2 :
    With(Find(hostinfo, 58, 0), LAMBDA colon :
        IF open >= 0
        THEN <<IF close >= 0 THEN Slice(bracketed, 0, close) ELSE bracketed,
               IF colon2 >= 0 THEN From(after, colon2 + 1) ELSE << >> >>
        ELSE <<IF colon >= 0 THEN Slice(hostinfo, 0, colon) ELSE hostinfo,
               IF colon >= 0 THEN From(hostinfo, colon + 1) ELSE << >> >>))))))))

\* the hostname property: lower-cased up to a zone separator %, empty for None
hostname_of(netloc) ==
    With(_hostinfo(netloc)[1], LAMBDA host :
    With(Find(host, 37, 0), LAMBDA pct :
        IF pct >= 0 THEN lower(Slice(host, 0, pct)) \o From(host, pct) ELSE lower(host)))

RECURSIVE ToInt(_)
ToInt(digits) ==
    IF digits = << >> THEN 0
    ELSE 10 * ToInt(SubSeq(digits, 1, Len(digits) - 1)) + (digits[Len(digits)] - 48)

\* the port property: [ok, port], port = -1 for None; ok = FALSE is ValueError
port_of(netloc) ==
    With(_hostinfo(netloc)[2], LAMBDA port :
        IF port = << >> THEN [ok |-> TRUE, port |-> -1]
        ELSE IF \E k \in 1..Len(port) : ~IsDigit(port[k]) THEN [ok |-> FALSE, port |-> -1]
        ELSE IF Len(port) > 5 \/ ToInt(port) > 65535 THEN [ok |-> FALSE, port |-> -1]
        ELSE [ok |-> TRUE, port |-> ToInt(port)])

\* str(n) for n >= 0
RECURSIVE ToText(_)
ToText(n) == IF n < 10 THEN <<48 + n>> ELSE ToText(n \div 10) \o <<48 + (n % 10)>>

HexVal(c) == IF IsDigit(c) THEN c - 48 ELSE IF c \in 65..70 THEN c - 55 ELSE c - 87

IsHex(c) == IsDigit(c) \/ c \in 65..70 \/ c \in 97..102

\* unquote, for escapes of ASCII characters
RECURSIVE unquote(_)
unquote(text) ==
    IF text = << >> THEN << >>
    ELSE IF Head(text) = 37 /\ Len(text) >= 3 /\ IsHex(text[2]) /\ IsHex(text[3])
         THEN <<16 * HexVal(text[2]) + HexVal(text[3])>> \o unquote(SubSeq(text, 4, Len(text)))
         ELSE <<Head(text)>> \o unquote(Tail(text))

HexDigit(n) == IF n < 10 THEN 48 + n ELSE 55 + n

\* quote_plus with safe = "", for ASCII text: unreserved characters stay, a
\* space is +, anything else is %XX
quote_plus(text) ==
    Flatten([k \in 1..Len(text) |->
               LET c == text[k]
               IN  IF IsLower(c) \/ IsUpper(c) \/ IsDigit(c) \/ c \in {45, 46, 95, 126}
                   THEN <<c>>
                   ELSE IF c = 32 THEN <<43>>
                   ELSE <<37, HexDigit(c \div 16), HexDigit(c % 16)>>])

PlusToSpace(text) == [k \in 1..Len(text) |-> IF text[k] = 43 THEN 32 ELSE text[k]]

\* parse_qsl(query, keep_blank_values=True): the <<key, value>> pairs
parse_qsl(query) ==
    LET fields == SelectSeq(SplitOn(query, 38), LAMBDA f : f # << >>)
    IN  [k \in 1..Len(fields) |->
           LET eq == Find(fields[k], 61, 0)
               name == IF eq >= 0 THEN Slice(fields[k], 0, eq) ELSE fields[k]
               value == IF eq >= 0 THEN From(fields[k], eq + 1) ELSE << >>
           IN  <<unquote(PlusToSpace(name)), unquote(PlusToSpace(value))>>]

\* "&".join
RECURSIVE JoinAmp(_)
JoinAmp(parts) ==
    IF parts = << >> THEN << >>
    ELSE IF Len(parts) = 1 THEN parts[1]
         ELSE parts[1] \o <<38>> \o JoinAmp(Tail(parts))

\* urlencode(pairs)
urlencode(pairs) ==
    JoinAmp([k \in 1..Len(pairs) |-> quote_plus(pairs[k][1]) \o <<61>> \o quote_plus(pairs[k][2])])

\* urlunparse
urlunparse(scheme, netloc, path, params, query, fragment) ==
    LET url0 == IF params # << >> THEN path \o <<59>> \o params ELSE path
        with_netloc == \/ netloc # << >>
                       \/ scheme # << >> /\ scheme \in uses_netloc
                          /\ ~(Len(url0) >= 2 /\ url0[1] = 47 /\ url0[2] = 47)
        url1 == IF with_netloc
                THEN <<47, 47>> \o netloc
                     \o (IF url0 # << >> /\ url0[1] # 47 THEN <<47>> ELSE << >>) \o url0
                ELSE url0
        url2 == IF scheme # << >> THEN scheme \o <<58>> \o url1 ELSE url1
        url3 == IF query # << >> THEN url2 \o <<63>> \o query ELSE url2
    IN  IF fragment # << >> THEN url3 \o <<35>> \o fragment ELSE url3

(***************************************************************************)
(* utils.py: URLs                                                          *)
(***************************************************************************)

\* "utm_"
TRACKING_PREFIXES == {<<117, 116, 109, 95>>}

\* gclid, fbclid, mc_cid, mc_eid, ref, source, spm
TRACKING_PARAMS ==
    {<<103, 99, 108, 105, 100>>,
    <<102, 98, 99, 108, 105, 100>>,
    <<109, 99, 95, 99, 105, 100>>,
    <<109, 99, 95, 101, 105, 100>>,
    <<114, 101, 102>>,
    <<115, 111, 117, 114, 99, 101>>,
    <<115, 112, 109>>}

StartsWith(text, prefix) == Len(text) >= Len(prefix) /\ SubSeq(text, 1, Len(prefix)) = prefix

_is_tracking_param(key) ==
    LET lowered == lower(key)
    IN  (\E prefix \in TRACKING_PREFIXES : StartsWith(lowered, prefix))
        \/ lowered \in TRACKING_PARAMS

\* "/"-stripping of the right end: path.rstrip("/")
RECURSIVE RStripSlash(_)
RStripSlash(path) ==
    IF path # << >> /\ path[Len(path)] = 47
    THEN RStripSlash(SubSeq(path, 1, Len(path) - 1))
    ELSE path

\* "https", "http"
HTTPS == <<104, 116, 116, 112, 115>>

HTTP == <<104, 116, 116, 112>>

\* normalize_url: [ok, url]; ok = FALSE is the ValueError of urlparse or of
\* the port property
normalize_url(url) ==
    With(urlparse(url), LAMBDA parsed :
    With(port_of(parsed.netloc), LAMBDA port :
    With(IF parsed.path = << >> THEN <<47>> ELSE parsed.path, LAMBDA path0 :
        LET scheme == IF parsed.scheme \in {<< >>, HTTP, HTTPS} THEN HTTPS
                      ELSE parsed.scheme
            hostname == lower(hostname_of(parsed.netloc))
            netloc == IF port.port > 0 /\ port.port \notin {80, 443}
                      THEN hostname \o <<58>> \o ToText(port.port)
                      ELSE hostname
            path == IF path0[Len(path0)] = 47 /\ path0 # <<47>> THEN RStripSlash(path0)
                    ELSE path0
            query_pairs == SelectSeq(parse_qsl(parsed.query),
                                     LAMBDA kv : ~_is_tracking_param(kv[1]))
            cleaned_query == urlencode(query_pairs)
        IN  IF ~parsed.ok \/ ~port.ok THEN [ok |-> FALSE, url |-> << >>]
            ELSE [ok |-> TRUE,
                  url |-> urlunparse(scheme, netloc, path, parsed.params, cleaned_query,
                                     << >>)])))

\* get_hostname: [ok, hostname]
get_hostname(url) ==
    With(urlparse(url), LAMBDA parsed :
        [ok |-> parsed.ok,
         hostname |-> IF parsed.ok THEN lower(hostname_of(parsed.netloc)) ELSE << >>])

(***************************************************************************)
(* utils.py: time.  A datetime is a number of minutes, None is NoTime.     *)
(***************************************************************************)

NoTime == -1

MinutesPerHour == 60

\* timedelta(hours=h), timedelta(minutes=m)
Hours(h) == h * MinutesPerHour

AbsDiff(x, y) == IF x >= y THEN x - y ELSE y - x

\* is_within_hours
is_within_hours(published, now, max_age_hours) ==
    IF published = NoTime THEN FALSE
    ELSE published >= now - Hours(max_age_hours)

(***************************************************************************)
(* fetch.py: the dedup registry                                            *)
(***************************************************************************)

\* FeedEntry (dataclass): full_text is the empty text for None, published is
\* the publish time the isoformat string stands for, NoTime for ""
FeedEntry(topic, title, link, published, source, feed_name, source_group, summary, full_text) ==
    [topic |-> topic, title |-> title, link |-> link, published |-> published,
     source |-> source, feed_name |-> feed_name, source_group |-> source_group,
     summary |-> summary, full_text |-> full_text]

\* SeenEntry (dataclass)
SeenEntry(entry, canonical_url, hostname, published, metadata) ==
    [entry |-> entry, canonical_url |-> canonical_url, hostname |-> hostname,
     published |-> published, metadata |-> metadata]

(***************************************************************************)
(* The configuration and the feed entries the runs draw from               *)
(***************************************************************************)

\* the first value of now, in minutes
T0 == 3000

\* the values now takes
Nows == {T0, T0 + Hours(1)}

\* FeedSource: "F1" with source group "G", "F2" without a source group
Feeds ==
    <<[name |-> <<70, 49>>, url |-> <<70, 49>>, source_group |-> <<71>>],
      [name |-> <<70, 50>>, url |-> <<70, 50>>, source_group |-> << >>]>>

\* config.active_topics(now): TopicConfig with the indices of its feeds
Topics ==
    <<[name |-> "World", lookback_hours |-> 24, feeds |-> <<1>>],
      [name |-> "Tech", lookback_hours |-> 12, feeds |-> <<2>>]>>

TopicNames == {Topics[t].name : t \in 1..Len(Topics)}

\* the smallest lookback of the topics
max_lookback_hours_smallest ==
    CHOOSE h \in {Topics[t].lookback_hours : t \in 1..Len(Topics)} :
        \A t \in 1..Len(Topics) : Topics[t].lookback_hours >= h

\* max(topic.lookback_hours for topic in active_topics)
max_lookback_hours ==
    CHOOSE h \in {Topics[t].lookback_hours : t \in 1..Len(Topics)} :
        \A t \in 1..Len(Topics) : Topics[t].lookback_hours <= h

\* the entries the feeds can hold: link, title, parsed publish time (NoTime
\* for a missing or unparseable date), summary, source title, the text of the
\* linked page (empty when it is not fetched or has none), the feed it is in
Corpus ==
    <<
      \* r1: 'http://a.io/x/', 'Fed raises rates', summary 'ab'
      [link |-> <<104, 116, 116, 112, 58, 47, 47, 97, 46, 105, 111, 47, 120, 47>>,
       title |-> <<70, 101, 100, 32, 114, 97, 105, 115, 101, 115, 32, 114, 97, 116, 101, 115>>,
       published |-> T0 - 60, summary |-> <<97, 98>>,
       source_title |-> << >>, page_text |-> <<>>, feed |-> 1],
      \* r2: 'https://A.io/x?utm_id=7', 'Fed raises rates', summary 'rates up'
      [link |-> <<104, 116, 116, 112, 115, 58, 47, 47, 65, 46, 105, 111, 47, 120, 63, 117, 116, 109, 95, 105, 100, 61, 55>>,
       title |-> <<70, 101, 100, 32, 114, 97, 105, 115, 101, 115, 32, 114, 97, 116, 101, 115>>,
       published |-> T0 - 60, summary |-> <<114, 97, 116, 101, 115, 32, 117, 112>>,
       source_title |-> << >>, page_text |-> <<>>, feed |-> 1],
      \* r3: 'https://a.io/x#top', 'Fed raises rates', summary 'rates up now'
      [link |-> <<104, 116, 116, 112, 115, 58, 47, 47, 97, 46, 105, 111, 47, 120, 35, 116, 111, 112>>,
       title |-> <<70, 101, 100, 32, 114, 97, 105, 115, 101, 115, 32, 114, 97, 116, 101, 115>>,
       published |-> NoTime, summary |-> <<114, 97, 116, 101, 115, 32, 117, 112, 32, 110, 111, 119>>,
       source_title |-> << >>, page_text |-> <<>>, feed |-> 2],
      \* r4: 'http://a.io/y', 'Fed raises rate', summary ''
      [link |-> <<104, 116, 116, 112, 58, 47, 47, 97, 46, 105, 111, 47, 121>>,
       title |-> <<70, 101, 100, 32, 114, 97, 105, 115, 101, 115, 32, 114, 97, 116, 101>>,
       published |-> T0 - 200, summary |-> <<>>,
       source_title |-> << >>, page_text |-> <<>>, feed |-> 2],
      \* r5: 'http://b.io/z', 'Fed raises rates', summary 'ab'
      [link |-> <<104, 116, 116, 112, 58, 47, 47, 98, 46, 105, 111, 47, 122>>,
       title |-> <<70, 101, 100, 32, 114, 97, 105, 115, 101, 115, 32, 114, 97, 116, 101, 115>>,
       published |-> T0 - 60, summary |-> <<97, 98>>,
       source_title |-> << >>, page_text |-> <<>>, feed |-> 1],
      \* r6: 'http://a.io/w', 'Paris 2024 vote', summary ''
      [link |-> <<104, 116, 116, 112, 58, 47, 47, 97, 46, 105, 111, 47, 119>>,
       title |-> <<80, 97, 114, 105, 115, 32, 50, 48, 50, 52, 32, 118, 111, 116, 101>>,
       published |-> T0 - 60, summary |-> <<>>,
       source_title |-> << >>, page_text |-> <<>>, feed |-> 1],
      \* r7: 'http://a.io/v', 'scrutin Paris 2024', summary 'le vote'
      [link |-> <<104, 116, 116, 112, 58, 47, 47, 97, 46, 105, 111, 47, 118>>,
       title |-> <<115, 99, 114, 117, 116, 105, 110, 32, 80, 97, 114, 105, 115, 32, 50, 48, 50, 52>>,
       published |-> T0 - 200, summary |-> <<108, 101, 32, 118, 111, 116, 101>>,
       source_title |-> << >>, page_text |-> <<>>, feed |-> 2],
      \* r8: 'http://a.io/old', 'Fed raised rates', summary 'abc'
      [link |-> <<104, 116, 116, 112, 58, 47, 47, 97, 46, 105, 111, 47, 111, 108, 100>>,
       title |-> <<70, 101, 100, 32, 114, 97, 105, 115, 101, 100, 32, 114, 97, 116, 101, 115>>,
       published |-> T0 - 1440, summary |-> <<97, 98, 99>>,
       source_title |-> << >>, page_text |-> <<>>, feed |-> 1],
      \* r9: 'http://a.io/q', 'Paris 2024 bilan', summary ''
      [link |-> <<104, 116, 116, 112, 58, 47, 47, 97, 46, 105, 111, 47, 113>>,
       title |-> <<80, 97, 114, 105, 115, 32, 50, 48, 50, 52, 32, 98, 105, 108, 97, 110>>,
       published |-> NoTime, summary |-> <<>>,
       source_title |-> << >>, page_text |-> <<>>, feed |-> 2],
      \* r10: '', 'Fed holds rates', summary '': an entry with an empty link
      [link |-> << >>,
       title |-> <<70, 101, 100, 32, 104, 111, 108, 100, 115, 32, 114, 97, 116, 101, 115>>,
       published |-> T0 - 60, summary |-> <<>>,
       source_title |-> << >>, page_text |-> <<>>, feed |-> 1],
      \* r11: 'http://a.io/n', '  ', summary 'ab': an entry with a blank title
      [link |-> <<104, 116, 116, 112, 58, 47, 47, 97, 46, 105, 111, 47, 110>>,
       title |-> <<32, 32>>,
       published |-> NoTime, summary |-> <<97, 98>>,
       source_title |-> << >>, page_text |-> <<>>, feed |-> 2],
      \* r12: 'http://a.io:8o/m', 'Fed cuts rates', summary '': a port that is no number
      [link |-> <<104, 116, 116, 112, 58, 47, 47, 97, 46, 105, 111, 58, 56, 111, 47, 109>>,
       title |-> <<70, 101, 100, 32, 99, 117, 116, 115, 32, 114, 97, 116, 101, 115>>,
       published |-> T0 - 60, summary |-> <<>>,
       source_title |-> << >>, page_text |-> <<>>, feed |-> 1],
      \* r13: 'http://[a.io/m', 'Fed cuts rates', summary '': an unbalanced bracket
      [link |-> <<104, 116, 116, 112, 58, 47, 47, 91, 97, 46, 105, 111, 47, 109>>,
       title |-> <<70, 101, 100, 32, 99, 117, 116, 115, 32, 114, 97, 116, 101, 115>>,
       published |-> T0 - 60, summary |-> <<>>,
       source_title |-> << >>, page_text |-> <<>>, feed |-> 2],
      \* r14: 'http://a.io/x?ref=z', 'Fed raised rates', summary 'abcd'
      [link |-> <<104, 116, 116, 112, 58, 47, 47, 97, 46, 105, 111, 47, 120, 63, 114, 101, 102, 61, 122>>,
       title |-> <<70, 101, 100, 32, 114, 97, 105, 115, 101, 100, 32, 114, 97, 116, 101, 115>>,
       published |-> T0 - 60, summary |-> <<97, 98, 99, 100>>,
       source_title |-> << >>, page_text |-> <<>>, feed |-> 1]
    >>

(***************************************************************************)
(* The entries handed to select_top_items: ten entries on three hosts and  *)
(* in three source groups. Two pairs on one host have similar titles; one  *)
(* entry is administrative (a newsletter), one has a short summary, three  *)
(* have no publish time, and two are local news. The last two entries are  *)
(* part of the pools of seven entries and more only.                       *)
(***************************************************************************)
SelectCorpus ==
    <<
      \* s1: https://a.io/1, group G, "Fed raises rates", published,
      \* a summary of 73 characters
      [link |-> <<104, 116, 116, 112, 115, 58, 47, 47, 97, 46, 105, 111, 47, 49>>,
       source_group |-> <<71>>,
       title |-> <<70, 101, 100, 32, 114, 97, 105, 115, 101, 115, 32, 114, 97, 116, 101, 115>>,
       published |-> T0 - 120,
       summary |-> <<67, 101, 110, 116, 114, 97, 108, 32, 98, 97, 110, 107, 32, 111, 102, 102, 105, 99, 105, 97, 108, 115, 32, 115, 97, 105, 100, 32, 116, 104, 101, 32, 109, 111, 118, 101, 32, 114, 101, 102, 108, 101, 99, 116, 115, 32, 112, 101, 114, 115, 105, 115, 116, 101, 110, 116, 32, 112, 114, 105, 99, 101, 32, 112, 114, 101, 115, 115, 117, 114, 101, 115, 46>>],
      \* s2: https://a.io/2, group G, "Fed raises rate", published,
      \* a summary of 90 characters
      [link |-> <<104, 116, 116, 112, 115, 58, 47, 47, 97, 46, 105, 111, 47, 50>>,
       source_group |-> <<71>>,
       title |-> <<70, 101, 100, 32, 114, 97, 105, 115, 101, 115, 32, 114, 97, 116, 101>>,
       published |-> T0 - 120,
       summary |-> <<79, 102, 102, 105, 99, 105, 97, 108, 115, 32, 118, 111, 116, 101, 100, 32, 116, 111, 32, 108, 105, 102, 116, 32, 116, 104, 101, 32, 98, 101, 110, 99, 104, 109, 97, 114, 107, 32, 114, 97, 116, 101, 32, 97, 103, 97, 105, 110, 44, 32, 99, 105, 116, 105, 110, 103, 32, 105, 110, 102, 108, 97, 116, 105, 111, 110, 32, 97, 110, 100, 32, 115, 116, 114, 111, 110, 103, 32, 104, 105, 114, 105, 110, 103, 32, 100, 97, 116, 97, 46>>],
      \* s3: https://a.io/3, group G, "Rate cuts rates", published,
      \* a summary of 64 characters
      [link |-> <<104, 116, 116, 112, 115, 58, 47, 47, 97, 46, 105, 111, 47, 51>>,
       source_group |-> <<71>>,
       title |-> <<82, 97, 116, 101, 32, 99, 117, 116, 115, 32, 114, 97, 116, 101, 115>>,
       published |-> T0 - 120,
       summary |-> <<76, 97, 119, 109, 97, 107, 101, 114, 115, 32, 97, 112, 112, 114, 111, 118, 101, 100, 32, 116, 104, 101, 32, 112, 108, 97, 110, 32, 97, 102, 116, 101, 114, 32, 97, 32, 108, 111, 110, 103, 32, 100, 101, 98, 97, 116, 101, 32, 108, 97, 116, 101, 32, 111, 110, 32, 84, 117, 101, 115, 100, 97, 121, 46>>],
      \* s4: https://a.io/4, group H, "Rates cut rate", no publish time,
      \* a summary of 84 characters
      [link |-> <<104, 116, 116, 112, 115, 58, 47, 47, 97, 46, 105, 111, 47, 52>>,
       source_group |-> <<72>>,
       title |-> <<82, 97, 116, 101, 115, 32, 99, 117, 116, 32, 114, 97, 116, 101>>,
       published |-> NoTime,
       summary |-> <<67, 101, 110, 116, 114, 97, 108, 32, 98, 97, 110, 107, 32, 111, 102, 102, 105, 99, 105, 97, 108, 115, 32, 115, 97, 105, 100, 32, 116, 104, 101, 32, 109, 111, 118, 101, 32, 114, 101, 102, 108, 101, 99, 116, 115, 32, 112, 101, 114, 115, 105, 115, 116, 101, 110, 116, 32, 112, 114, 105, 99, 101, 32, 112, 114, 101, 115, 115, 117, 114, 101, 115, 46, 32, 77, 111, 114, 101, 32, 115, 111, 111, 110, 46>>],
      \* s5: https://b.io/5, group G, "Fed raises rates", no publish time,
      \* a summary of 90 characters
      [link |-> <<104, 116, 116, 112, 115, 58, 47, 47, 98, 46, 105, 111, 47, 53>>,
       source_group |-> <<71>>,
       title |-> <<70, 101, 100, 32, 114, 97, 105, 115, 101, 115, 32, 114, 97, 116, 101, 115>>,
       published |-> NoTime,
       summary |-> <<79, 102, 102, 105, 99, 105, 97, 108, 115, 32, 118, 111, 116, 101, 100, 32, 116, 111, 32, 108, 105, 102, 116, 32, 116, 104, 101, 32, 98, 101, 110, 99, 104, 109, 97, 114, 107, 32, 114, 97, 116, 101, 32, 97, 103, 97, 105, 110, 44, 32, 99, 105, 116, 105, 110, 103, 32, 105, 110, 102, 108, 97, 116, 105, 111, 110, 32, 97, 110, 100, 32, 115, 116, 114, 111, 110, 103, 32, 104, 105, 114, 105, 110, 103, 32, 100, 97, 116, 97, 46>>],
      \* s6: https://a.io/6, group H, "Budget vote newsletter", published,
      \* a summary of 72 characters
      [link |-> <<104, 116, 116, 112, 115, 58, 47, 47, 97, 46, 105, 111, 47, 54>>,
       source_group |-> <<72>>,
       title |-> <<66, 117, 100, 103, 101, 116, 32, 118, 111, 116, 101, 32, 110, 101, 119, 115, 108, 101, 116, 116, 101, 114>>,
       published |-> T0 - 120,
       summary |-> <<77, 111, 110, 116, 97, 110, 97, 32, 108, 97, 119, 109, 97, 107, 101, 114, 115, 32, 97, 112, 112, 114, 111, 118, 101, 100, 32, 116, 104, 101, 32, 112, 108, 97, 110, 32, 97, 102, 116, 101, 114, 32, 97, 32, 108, 111, 110, 103, 32, 100, 101, 98, 97, 116, 101, 32, 108, 97, 116, 101, 32, 111, 110, 32, 84, 117, 101, 115, 100, 97, 121, 46>>],
      \* s7: https://c.io/7, group K, "a title in Cyrillic letters", published,
      \* a summary of 2 characters
      [link |-> <<104, 116, 116, 112, 115, 58, 47, 47, 99, 46, 105, 111, 47, 55>>,
       source_group |-> <<75>>,
       title |-> <<1053, 1086, 1074, 1086, 1089, 1090, 1080, 32, 1076, 1085, 1103>>,
       published |-> T0 - 120,
       summary |-> <<97, 98>>],
      \* s8: https://b.io/8, group H, "Polson fair opens", published,
      \* a summary of 73 characters
      [link |-> <<104, 116, 116, 112, 115, 58, 47, 47, 98, 46, 105, 111, 47, 56>>,
       source_group |-> <<72>>,
       title |-> <<80, 111, 108, 115, 111, 110, 32, 102, 97, 105, 114, 32, 111, 112, 101, 110, 115>>,
       published |-> T0 - 120,
       summary |-> <<67, 101, 110, 116, 114, 97, 108, 32, 98, 97, 110, 107, 32, 111, 102, 102, 105, 99, 105, 97, 108, 115, 32, 115, 97, 105, 100, 32, 116, 104, 101, 32, 109, 111, 118, 101, 32, 114, 101, 102, 108, 101, 99, 116, 115, 32, 112, 101, 114, 115, 105, 115, 116, 101, 110, 116, 32, 112, 114, 105, 99, 101, 32, 112, 114, 101, 115, 115, 117, 114, 101, 115, 46>>],
      \* s9: https://c.io/9, group K, "Court backs budget plan", published,
      \* a summary of 90 characters
      [link |-> <<104, 116, 116, 112, 115, 58, 47, 47, 99, 46, 105, 111, 47, 57>>,
       source_group |-> <<75>>,
       title |-> <<67, 111, 117, 114, 116, 32, 98, 97, 99, 107, 115, 32, 98, 117, 100, 103, 101, 116, 32, 112, 108, 97, 110>>,
       published |-> T0 - 120,
       summary |-> <<79, 102, 102, 105, 99, 105, 97, 108, 115, 32, 118, 111, 116, 101, 100, 32, 116, 111, 32, 108, 105, 102, 116, 32, 116, 104, 101, 32, 98, 101, 110, 99, 104, 109, 97, 114, 107, 32, 114, 97, 116, 101, 32, 97, 103, 97, 105, 110, 44, 32, 99, 105, 116, 105, 110, 103, 32, 105, 110, 102, 108, 97, 116, 105, 111, 110, 32, 97, 110, 100, 32, 115, 116, 114, 111, 110, 103, 32, 104, 105, 114, 105, 110, 103, 32, 100, 97, 116, 97, 46>>],
      \* s10: https://a.io/10, group K, "Storm closes schools", no publish
      \* time, a summary of 64 characters
      [link |-> <<104, 116, 116, 112, 115, 58, 47, 47, 97, 46, 105, 111, 47, 49, 48>>,
       source_group |-> <<75>>,
       title |-> <<83, 116, 111, 114, 109, 32, 99, 108, 111, 115, 101, 115, 32, 115, 99, 104, 111, 111, 108, 115>>,
       published |-> NoTime,
       summary |-> <<76, 97, 119, 109, 97, 107, 101, 114, 115, 32, 97, 112, 112, 114, 111, 118, 101, 100, 32, 116, 104, 101, 32, 112, 108, 97, 110, 32, 97, 102, 116, 101, 114, 32, 97, 32, 108, 111, 110, 103, 32, 100, 101, 98, 97, 116, 101, 32, 108, 97, 116, 101, 32, 111, 110, 32, 84, 117, 101, 115, 100, 97, 121, 46>>]
    >>

\* the topic a feed belongs to
TopicOfFeed(f) == CHOOSE t \in 1..Len(Topics) : f \in Range(Topics[t].feeds)

\* the FeedEntry fetch_feeds builds from a parsed entry of a feed
BuildItem(topic, feed, raw, link) ==
    FeedEntry(topic.name, strip(raw.title), link, raw.published,
              IF raw.source_title # << >> THEN raw.source_title ELSE feed.name,
              feed.name,
              IF feed.source_group # << >> THEN feed.source_group ELSE feed.name,
              raw.summary, raw.page_text)

(***************************************************************************)
(* The text functions tabulated over the corpus: each table holds the      *)
(* values of the operator it names, computed once                          *)
(***************************************************************************)

\* the FeedEntry of every corpus entry, as its own feed yields it
CorpusItem ==
    [r \in 1..Len(Corpus) |->
       BuildItem(Topics[TopicOfFeed(Corpus[r].feed)], Feeds[Corpus[r].feed], Corpus[r],
                 normalize_url(Corpus[r].link).url)] @@ << >>

\* the texts of a FeedEntry that similarity and metadata read
Story(item) == <<item.title, item.summary, item.full_text>>

Stories == {Story(CorpusItem[r]) : r \in 1..Len(Corpus)}

\* normalize_url on the links of the corpus
NormalizedUrl == [r \in 1..Len(Corpus) |-> normalize_url(Corpus[r].link)] @@ << >>

\* get_hostname on the canonical links of the corpus
Hostname ==
    [link \in {CorpusItem[r].link : r \in 1..Len(Corpus)} |-> get_hostname(link)] @@ << >>

\* weighted_story_similarity on the stories of the corpus
StorySimilarity ==
    [p \in Stories \X Stories |->
       weighted_story_similarity(p[1][1], p[2][1], p[1][2], p[2][2], p[1][3], p[2][3])] @@ << >>

\* compact_text([summary], 240) on the summaries of the two corpora
SummaryCompact240 ==
    [summary \in {Corpus[r].summary : r \in 1..Len(Corpus)}
                 \cup {SelectCorpus[k].summary : k \in 1..Len(SelectCorpus)} |->
       compact_text(<<summary>>, 240)] @@ << >>

(***************************************************************************)
(* fetch.py: the dedup registry operations                                 *)
(***************************************************************************)

\* a time test that every pair of publish times passes
_within_recent_minutes_always(left, right, max_minutes) == TRUE

\* _within_recent_minutes
_within_recent_minutes(left, right, max_minutes) ==
    IF left = NoTime \/ right = NoTime THEN TRUE
    ELSE AbsDiff(left, right) <= max_minutes

\* _within_recent_window
_within_recent_window(left, right, max_age_hours) ==
    IF left = NoTime \/ right = NoTime THEN TRUE
    ELSE AbsDiff(left, right) <= Hours(max_age_hours)

\* a prune pass that removes nothing
_prune_seen_entries_nothing(entries, now, max_age_hours) == entries

\* a prune pass whose boundary is exclusive: a record published exactly
\* max_age_hours before now goes too
_prune_seen_entries_exclusive(entries, now, max_age_hours) ==
    LET cutoff == now - Hours(max_age_hours)
    IN  SelectSeq(entries, LAMBDA seen : seen.published = NoTime \/ seen.published > cutoff)

\* _prune_seen_entries: the list that replaces seen_entries[:]
_prune_seen_entries(entries, now, max_age_hours) ==
    LET cutoff == now - Hours(max_age_hours)
    IN  SelectSeq(entries, LAMBDA seen : seen.published = NoTime \/ seen.published >= cutoff)

\* _entry_quality_score: 2.0 for a publish time plus min(len(summary), 240) / 240
_entry_quality_score(entry) ==
    LET summary == SummaryCompact240[entry.summary]
    IN  Frac((IF entry.published # NoTime THEN 2 * 240 ELSE 0) + Min(Len(summary), 240), 240)

\* a comparison that lets an equal score win
_is_better_entry_or_equal(candidate, existing) ==
    FracGe(_entry_quality_score(candidate), _entry_quality_score(existing))

\* _is_better_entry
_is_better_entry(candidate, existing) ==
    FracGt(_entry_quality_score(candidate), _entry_quality_score(existing))

\* _build_story_metadata
BuildStoryMetadata(item) ==
    LET metadata_parts == <<item.title, item.summary>>
                          \o (IF item.full_text # << >> THEN <<Prefix(item.full_text, 600)>>
                              ELSE << >>)
    IN  extract_comparison_metadata(
            JoinLines(SelectSeq(metadata_parts, LAMBDA part : part # << >>)))

\* _build_story_metadata on the stories of the corpus
StoryMetadata ==
    [st \in Stories |->
       BuildStoryMetadata([title |-> st[1], summary |-> st[2], full_text |-> st[3]])] @@ << >>

_build_story_metadata(item) == StoryMetadata[Story(item)]

\* the index of the first element of entries that satisfies Test, 0 for None
FirstIndex(entries, Test(_)) ==
    LET hits == {i \in 1..Len(entries) : Test(entries[i])}
    IN  IF hits = {} THEN 0 ELSE CHOOSE i \in hits : \A j \in hits : i <= j

\* a lookup that, when the URL is tracked, returns the first SeenEntry of the
\* list in place of the one with the URL
_find_seen_by_url_first(entries, url) ==
    IF FirstIndex(entries, LAMBDA seen : seen.canonical_url = url) = 0 THEN 0 ELSE 1

\* _find_seen_by_url: the index of the first SeenEntry with this URL, 0 for None
_find_seen_by_url(entries, url) ==
    FirstIndex(entries, LAMBDA seen : seen.canonical_url = url)

\* _is_translation_duplicate
_is_translation_duplicate(current_published, seen_published, current_metadata, seen_metadata, metadata_threshold, max_minutes) ==
    IF ~_within_recent_minutes(current_published, seen_published, max_minutes) THEN FALSE
    ELSE FracGe(metadata_overlap_ratio(current_metadata, seen_metadata), metadata_threshold)

\* a weighted threshold of 0.95 in place of the default
weighted_threshold_strict == Frac(95, 100)

\* the defaults of _find_near_duplicate
weighted_threshold == Frac(82, 100)

translation_metadata_threshold == Frac(65, 100)

translation_time_window_minutes == 180

\* _find_near_duplicate: the index of the first match, 0 for None
_find_near_duplicate(entries, item, hostname, published_dt, max_age_hours, metadata) ==
    FirstIndex(entries, LAMBDA seen :
        /\ seen.hostname = hostname
        /\ _within_recent_window(published_dt, seen.published, max_age_hours)
        /\ \/ FracGe(StorySimilarity[Story(item), Story(seen.entry)], weighted_threshold)
           \/ _is_translation_duplicate(published_dt, seen.published, metadata,
                                        seen.metadata, translation_metadata_threshold,
                                        translation_time_window_minutes))

\* a removal that removes nothing
RemoveFirst_nothing(list, x) == list

\* list.remove(x) when x is in the list: the first equal element goes
RemoveFirst(list, x) ==
    LET i == FirstIndex(list, LAMBDA y : y = x)
    IN  IF i = 0 THEN list ELSE SubSeq(list, 1, i - 1) \o SubSeq(list, i + 1, Len(list))

\* a replacement that puts the incoming record where the old one was kept
_replace_entry_in_old_bucket(buckets, urls, entries, i, replacement, published_dt, metadata) ==
    [entries_by_topic |-> [buckets EXCEPT ![entries[i].entry.topic] =
                               Append(RemoveFirst(@, entries[i].entry), replacement)],
     seen_urls |-> (urls \ {entries[i].canonical_url}) \cup {replacement.link},
     seen_entries |-> [entries EXCEPT ![i] =
                         SeenEntry(replacement, replacement.link,
                                   Hostname[replacement.link].hostname,
                                   published_dt, metadata)]]

\* a replacement that tracks the incoming record in a new SeenEntry and keeps
\* the old one too
_replace_entry_appending(buckets, urls, entries, i, replacement, published_dt, metadata) ==
    [entries_by_topic |-> [[buckets EXCEPT ![entries[i].entry.topic] =
                               RemoveFirst(@, entries[i].entry)]
                             EXCEPT ![replacement.topic] = Append(@, replacement)],
     seen_urls |-> urls \cup {replacement.link},
     seen_entries |-> Append(entries, SeenEntry(replacement, replacement.link,
                                                Hostname[replacement.link].hostname,
                                                published_dt, metadata))]

\* _replace_entry on the SeenEntry at index i: the three structures after it
_replace_entry(buckets, urls, entries, i, replacement, published_dt, metadata) ==
    LET existing == entries[i]
        removed == [buckets EXCEPT ![entries[i].entry.topic] =
                       RemoveFirst(@, entries[i].entry)]
    IN  [entries_by_topic |-> [removed EXCEPT ![replacement.topic] = Append(@, replacement)],
         seen_urls |-> (urls \ {existing.canonical_url}) \cup {replacement.link},
         seen_entries |-> [entries EXCEPT ![i] =
                             SeenEntry(replacement, replacement.link,
                                       Hostname[replacement.link].hostname,
                                       published_dt, metadata)]]

\* _register_entry: the returned action and the three structures after the call
_register_entry(dry, buckets, urls, entries, item, published_dt, now, compare_window_hours, prune_window_hours) ==
    IF dry
    THEN [action |-> "added",
          state |-> [entries_by_topic |-> [buckets EXCEPT ![item.topic] = Append(@, item)],
                     seen_urls |-> urls, seen_entries |-> entries]]
    ELSE
    With(_prune_seen_entries(entries, now, prune_window_hours), LAMBDA pruned :
    With(Hostname[item.link].hostname, LAMBDA hostname :
    With(_build_story_metadata(item), LAMBDA metadata :
    With(_find_seen_by_url(pruned, item.link), LAMBDA existing_by_url :
    With([entries_by_topic |-> buckets, seen_urls |-> urls, seen_entries |-> pruned],
         LAMBDA unchanged :
        IF existing_by_url # 0
        THEN IF _is_better_entry(item, pruned[existing_by_url].entry)
             THEN [action |-> "replaced",
                   state |-> _replace_entry(buckets, urls, pruned, existing_by_url, item,
                                            published_dt, metadata)]
             ELSE [action |-> "skipped", state |-> unchanged]
        ELSE IF item.link \in urls
        THEN [action |-> "skipped", state |-> unchanged]
        ELSE
        With(_find_near_duplicate(pruned, item, hostname, published_dt,
                                  compare_window_hours, metadata), LAMBDA near_match :
            IF near_match # 0
            THEN IF _is_better_entry(item, pruned[near_match].entry)
                 THEN [action |-> "replaced",
                       state |-> _replace_entry(buckets, urls, pruned, near_match, item,
                                                published_dt, metadata)]
                 ELSE [action |-> "skipped", state |-> unchanged]
            ELSE [action |-> "added",
                  state |-> [entries_by_topic |->
                                 [buckets EXCEPT ![item.topic] = Append(@, item)],
                             seen_urls |-> urls \cup {item.link},
                             seen_entries |->
                                 Append(pruned, SeenEntry(item, item.link, hostname,
                                                          published_dt, metadata))]]))))))

\* parse_feed in a dry run: the two placeholder entries of a feed. Their dates
\* are datetime.isoformat() texts, which parse_published turns into None
DryRunEntries(feed) ==
    LET dry == <<91, 100, 114, 121, 32, 114, 117, 110, 93, 32>>
        entry(n) ==
            [link |-> <<104, 116, 116, 112, 115, 58, 47, 47, 101, 120, 97, 109, 112, 108, 101, 46, 99, 111, 109, 47, 100, 114, 121, 45, 114, 117, 110, 47>> \o feed.name
                      \o <<47, 105, 116, 101, 109>> \o ToText(n),
             title |-> dry \o feed.name \o <<32, 73, 116, 101, 109, 32>> \o ToText(n),
             published |-> NoTime,
             summary |-> dry \o <<83, 117, 109, 109, 97, 114, 121, 32, 102, 111, 114, 32>> \o feed.name
                         \o <<32, 105, 116, 101, 109, 32>> \o ToText(n) \o <<46>>,
             source_title |-> feed.name, page_text |-> << >>, feed |-> 0]
    IN  <<entry(1), entry(2)>>

(***************************************************************************)
(* summarize.py: entry metadata, scores and ranking                        *)
(***************************************************************************)

\* newsletter, podcast, opinion, sponsored, advertisement, press release,
\* webinar, event, roundup, digest, transcript
ADMIN_KEYWORDS ==
    {<<110, 101, 119, 115, 108, 101, 116, 116, 101, 114>>,
     <<112, 111, 100, 99, 97, 115, 116>>,
     <<111, 112, 105, 110, 105, 111, 110>>,
     <<115, 112, 111, 110, 115, 111, 114, 101, 100>>,
     <<97, 100, 118, 101, 114, 116, 105, 115, 101, 109, 101, 110, 116>>,
     <<112, 114, 101, 115, 115, 32, 114, 101, 108, 101, 97, 115, 101>>,
     <<119, 101, 98, 105, 110, 97, 114>>,
     <<101, 118, 101, 110, 116>>,
     <<114, 111, 117, 110, 100, 117, 112>>,
     <<100, 105, 103, 101, 115, 116>>,
     <<116, 114, 97, 110, 115, 99, 114, 105, 112, 116>>}

\* "Local News"
LOCAL_NEWS_TOPIC == "Local News"

LOCAL_NEWS_MIN_SCORE == 1

\* polson, lake county, kalispell, flathead, ronan, pablo, bigfork,
\* columbia falls, whitefish, mission valley
LOCAL_STRONG_POSITIVE_TERMS ==
    <<<<112, 111, 108, 115, 111, 110>>,
     <<108, 97, 107, 101, 32, 99, 111, 117, 110, 116, 121>>,
     <<107, 97, 108, 105, 115, 112, 101, 108, 108>>,
     <<102, 108, 97, 116, 104, 101, 97, 100>>,
     <<114, 111, 110, 97, 110>>,
     <<112, 97, 98, 108, 111>>,
     <<98, 105, 103, 102, 111, 114, 107>>,
     <<99, 111, 108, 117, 109, 98, 105, 97, 32, 102, 97, 108, 108, 115>>,
     <<119, 104, 105, 116, 101, 102, 105, 115, 104>>,
     <<109, 105, 115, 115, 105, 111, 110, 32, 118, 97, 108, 108, 101, 121>>>>

\* "montana", " mt ", " mt."
LOCAL_MEDIUM_POSITIVE_TERMS ==
    {<<109, 111, 110, 116, 97, 110, 97>>,
     <<32, 109, 116, 32>>,
     <<32, 109, 116, 46>>}

\* legislation, legislature, bill, wildfire, fire season, weather, school
\* funding, education funding, health care policy, healthcare policy, medicaid
LOCAL_OVERRIDE_TERMS ==
    {<<108, 101, 103, 105, 115, 108, 97, 116, 105, 111, 110>>,
     <<108, 101, 103, 105, 115, 108, 97, 116, 117, 114, 101>>,
     <<98, 105, 108, 108>>,
     <<119, 105, 108, 100, 102, 105, 114, 101>>,
     <<102, 105, 114, 101, 32, 115, 101, 97, 115, 111, 110>>,
     <<119, 101, 97, 116, 104, 101, 114>>,
     <<115, 99, 104, 111, 111, 108, 32, 102, 117, 110, 100, 105, 110, 103>>,
     <<101, 100, 117, 99, 97, 116, 105, 111, 110, 32, 102, 117, 110, 100, 105, 110, 103>>,
     <<104, 101, 97, 108, 116, 104, 32, 99, 97, 114, 101, 32, 112, 111, 108, 105, 99, 121>>,
     <<104, 101, 97, 108, 116, 104, 99, 97, 114, 101, 32, 112, 111, 108, 105, 99, 121>>,
     <<109, 101, 100, 105, 99, 97, 105, 100>>}

\* the state names of OTHER_STATE_DATELINE_PATTERN, alabama to wyoming without
\* montana, in the order of the alternation
OtherStates ==
    <<<<97, 108, 97, 98, 97, 109, 97>>,
     <<97, 108, 97, 115, 107, 97>>,
     <<97, 114, 105, 122, 111, 110, 97>>,
     <<97, 114, 107, 97, 110, 115, 97, 115>>,
     <<99, 97, 108, 105, 102, 111, 114, 110, 105, 97>>,
     <<99, 111, 108, 111, 114, 97, 100, 111>>,
     <<99, 111, 110, 110, 101, 99, 116, 105, 99, 117, 116>>,
     <<100, 101, 108, 97, 119, 97, 114, 101>>,
     <<102, 108, 111, 114, 105, 100, 97>>,
     <<103, 101, 111, 114, 103, 105, 97>>,
     <<104, 97, 119, 97, 105, 105>>,
     <<105, 100, 97, 104, 111>>,
     <<105, 108, 108, 105, 110, 111, 105, 115>>,
     <<105, 110, 100, 105, 97, 110, 97>>,
     <<105, 111, 119, 97>>,
     <<107, 97, 110, 115, 97, 115>>,
     <<107, 101, 110, 116, 117, 99, 107, 121>>,
     <<108, 111, 117, 105, 115, 105, 97, 110, 97>>,
     <<109, 97, 105, 110, 101>>,
     <<109, 97, 114, 121, 108, 97, 110, 100>>,
     <<109, 97, 115, 115, 97, 99, 104, 117, 115, 101, 116, 116, 115>>,
     <<109, 105, 99, 104, 105, 103, 97, 110>>,
     <<109, 105, 110, 110, 101, 115, 111, 116, 97>>,
     <<109, 105, 115, 115, 105, 115, 115, 105, 112, 112, 105>>,
     <<109, 105, 115, 115, 111, 117, 114, 105>>,
     <<110, 101, 98, 114, 97, 115, 107, 97>>,
     <<110, 101, 118, 97, 100, 97>>,
     <<110, 101, 119, 32, 104, 97, 109, 112, 115, 104, 105, 114, 101>>,
     <<110, 101, 119, 32, 106, 101, 114, 115, 101, 121>>,
     <<110, 101, 119, 32, 109, 101, 120, 105, 99, 111>>,
     <<110, 101, 119, 32, 121, 111, 114, 107>>,
     <<110, 111, 114, 116, 104, 32, 99, 97, 114, 111, 108, 105, 110, 97>>,
     <<110, 111, 114, 116, 104, 32, 100, 97, 107, 111, 116, 97>>,
     <<111, 104, 105, 111>>,
     <<111, 107, 108, 97, 104, 111, 109, 97>>,
     <<111, 114, 101, 103, 111, 110>>,
     <<112, 101, 110, 110, 115, 121, 108, 118, 97, 110, 105, 97>>,
     <<114, 104, 111, 100, 101, 32, 105, 115, 108, 97, 110, 100>>,
     <<115, 111, 117, 116, 104, 32, 99, 97, 114, 111, 108, 105, 110, 97>>,
     <<115, 111, 117, 116, 104, 32, 100, 97, 107, 111, 116, 97>>,
     <<116, 101, 110, 110, 101, 115, 115, 101, 101>>,
     <<116, 101, 120, 97, 115>>,
     <<117, 116, 97, 104>>,
     <<118, 101, 114, 109, 111, 110, 116>>,
     <<118, 105, 114, 103, 105, 110, 105, 97>>,
     <<119, 97, 115, 104, 105, 110, 103, 116, 111, 110>>,
     <<119, 101, 115, 116, 32, 118, 105, 114, 103, 105, 110, 105, 97>>,
     <<119, 105, 115, 99, 111, 110, 115, 105, 110>>,
     <<119, 121, 111, 109, 105, 110, 103>>>>

\* r"\b([a-z][a-z\s\.-]+),\s*(?:alabama|...|wyoming)\b", matched on lower-cased text
OTHER_STATE_DATELINE_PATTERN ==
    <<Bnd, Cls(Lowers, 1, 1), Cls(Lowers \cup Spaces \cup {45, 46}, 1, Many),
      Cls({44}, 1, 1), Cls(Spaces, 0, Many), Alt(OtherStates), Bnd>>

\* r"\b59\d{3}\b"
MONTANA_ZIP_PATTERN == <<Bnd, Cls({53}, 1, 1), Cls({57}, 1, 1), Cls(Digits, 3, 3), Bnd>>

\* pattern.search(text) is not None
search(nodes, text) == \E pos \in 0..Len(text) : Ends(nodes, text, pos) # << >>

\* _entry_meta: EntryMeta(domain, summary_length, is_low_info, is_admin, has_published)
_entry_meta(entry) ==
    With(compact_text(<<entry.summary>>, 280), LAMBDA summary :
    With(lower(entry.title \o <<32>> \o summary), LAMBDA combined :
        [domain |-> get_hostname(entry.link).hostname,
         summary_length |-> Len(summary),
         is_low_info |-> Len(summary) < 60,
         is_admin |-> \E keyword \in ADMIN_KEYWORDS : Contains(combined, keyword),
         has_published |-> entry.published # NoTime]))

\* _entry_score, in 880ths: 1.0 for a publish time, min(summary_length, 220) / 220,
\* -1.0 for a low-information entry, -0.75 for an administrative one
_entry_score(meta) ==
    Frac((IF meta.has_published THEN 880 ELSE 0)
         + 4 * Min(meta.summary_length, 220)
         - (IF meta.is_low_info THEN 880 ELSE 0)
         - (IF meta.is_admin THEN 660 ELSE 0), 880)

\* _local_news_relevance_score: every term of the sum is a whole number
_local_news_relevance_score(entry) ==
    With(lower(entry.title \o <<32>> \o entry.summary), LAMBDA combined :
    With(\/ Contains(combined, <<109, 111, 110, 116, 97, 110, 97>>)
         \/ Contains(combined, <<32, 109, 116, 32>>)
         \/ Contains(combined, <<32, 109, 116, 46>>), LAMBDA has_mt_context :
    With(3 * Cardinality({k \in 1..Len(LOCAL_STRONG_POSITIVE_TERMS) :
                            Contains(combined, LOCAL_STRONG_POSITIVE_TERMS[k])})
         + (IF \E term \in LOCAL_MEDIUM_POSITIVE_TERMS : Contains(combined, term)
            THEN 1 ELSE 0)
         + (IF search(MONTANA_ZIP_PATTERN, combined) THEN 1 ELSE 0)
         - (IF search(OTHER_STATE_DATELINE_PATTERN, combined) /\ ~has_mt_context
            THEN 4 ELSE 0), LAMBDA score :
        IF has_mt_context /\ \E term \in LOCAL_OVERRIDE_TERMS : Contains(combined, term)
        THEN Max(score, LOCAL_NEWS_MIN_SCORE) + 2
        ELSE score)))

\* str < str: the order of the code points
RECURSIVE TextLess(_, _)
TextLess(a, b) ==
    IF b = << >> THEN FALSE
    ELSE IF a = << >> THEN TRUE
    ELSE IF Head(a) # Head(b) THEN Head(a) < Head(b)
    ELSE TextLess(Tail(a), Tail(b))

\* tuple < tuple for sort keys <<number or fraction ..., text>>: the first
\* component that differs decides; numbers are written as fractions
RECURSIVE KeyLess(_, _)
KeyLess(a, b) ==
    IF Len(a) = 1 THEN TextLess(a[1], b[1])
    ELSE IF FracGt(b[1], a[1]) THEN TRUE
    ELSE IF FracGt(a[1], b[1]) THEN FALSE
    ELSE KeyLess(Tail(a), Tail(b))

\* sorted(items, key=..., reverse=True), keys[k] the key of items[k]: the
\* positions of items in sorted order. The sort is stable, so items with
\* equal keys keep the order they came in.
RECURSIVE SortedReverseOrder(_, _)
SortedReverseOrder(keys, n) ==
    IF n = 0 THEN << >>
    ELSE With(SortedReverseOrder(keys, n - 1), LAMBDA done :
         With(Cardinality({k \in 1..Len(done) : ~KeyLess(keys[done[k]], keys[n])}),
              LAMBDA before :
             SubSeq(done, 1, before) \o <<n>> \o SubSeq(done, before + 1, Len(done))))

SortedReverse(items, keys) ==
    With(SortedReverseOrder(keys, Len(items)), LAMBDA order :
        [k \in 1..Len(items) |-> items[order[k]]])

\* the FeedEntry of entry k of the corpus under a topic
SelectEntry(k, topic) ==
    FeedEntry(topic, SelectCorpus[k].title, SelectCorpus[k].link, SelectCorpus[k].published,
              SelectCorpus[k].source_group, SelectCorpus[k].source_group,
              SelectCorpus[k].source_group, SelectCorpus[k].summary, << >>)

\* _entry_meta on the entries of the corpus, by link
EntryMetaOf ==
    [link \in {SelectCorpus[k].link : k \in 1..Len(SelectCorpus)} |->
       _entry_meta(SelectEntry(CHOOSE k \in 1..Len(SelectCorpus) : SelectCorpus[k].link = link,
                               "World"))] @@ << >>

\* _local_news_relevance_score on the entries of the corpus, by link
LocalScoreOf ==
    [link \in {SelectCorpus[k].link : k \in 1..Len(SelectCorpus)} |->
       _local_news_relevance_score(
           SelectEntry(CHOOSE k \in 1..Len(SelectCorpus) : SelectCorpus[k].link = link,
                       "World"))] @@ << >>

\* get_hostname on the links of the corpus
HostnameOf ==
    [link \in {SelectCorpus[k].link : k \in 1..Len(SelectCorpus)} |->
       get_hostname(link)] @@ << >>

\* title_similarity(left, right) on the titles of the corpus
TitleSimilarityOf ==
    [p \in {SelectCorpus[k].title : k \in 1..Len(SelectCorpus)}
           \X {SelectCorpus[k].title : k \in 1..Len(SelectCorpus)} |->
       title_similarity(p[1], p[2])] @@ << >>

\* fetch.py on two entries of the corpus: item, registered while seen is
\* tracked, is taken for the same story, by its canonical link or by
\* _find_near_duplicate within the lookback window of the topic
RegistryDuplicateOf ==
    [p \in {SelectCorpus[k].link : k \in 1..Len(SelectCorpus)}
           \X {SelectCorpus[k].link : k \in 1..Len(SelectCorpus)} |->
       With(SelectEntry(CHOOSE k \in 1..Len(SelectCorpus) : SelectCorpus[k].link = p[1],
                        "World"), LAMBDA item :
       With(SelectEntry(CHOOSE k \in 1..Len(SelectCorpus) : SelectCorpus[k].link = p[2],
                        "World"), LAMBDA seen :
           \/ normalize_url(item.link).url = normalize_url(seen.link).url
           \/ /\ get_hostname(normalize_url(item.link).url)
                   = get_hostname(normalize_url(seen.link).url)
              /\ _within_recent_window(item.published, seen.published,
                                       Topics[1].lookback_hours)
              /\ \/ FracGe(weighted_story_similarity(item.title, seen.title, item.summary,
                                                     seen.summary, item.full_text,
                                                     seen.full_text),
                           weighted_threshold)
                 \/ _is_translation_duplicate(item.published, seen.published,
                                              BuildStoryMetadata(item),
                                              BuildStoryMetadata(seen),
                                              translation_metadata_threshold,
                                              translation_time_window_minutes)))] @@ << >>

\* {entry.link: _entry_meta(entry) for entry in filtered_entries}
meta_by_link(entries) ==
    [link \in {entries[i].link : i \in 1..Len(entries)} |-> EntryMetaOf[link]]

\* _filter_local_news_entries: the entries that score LOCAL_NEWS_MIN_SCORE or
\* more, sorted by (score, title.lower()), highest first
_filter_local_news_entries(entries) ==
    With(SelectSeq(entries, LAMBDA entry : LocalScoreOf[entry.link] >= LOCAL_NEWS_MIN_SCORE),
         LAMBDA kept :
        SortedReverse(kept, [k \in 1..Len(kept) |->
                                <<Frac(LocalScoreOf[kept[k].link], 1), lower(kept[k].title)>>]))

\* _rank_entries: sorted by (_entry_score, title.lower()), highest first; for
\* Local News by (_local_news_relevance_score, _entry_score, title.lower())
_rank_entries(topic, entries, meta) ==
    SortedReverse(entries, [k \in 1..Len(entries) |->
        IF topic = LOCAL_NEWS_TOPIC
        THEN <<Frac(LocalScoreOf[entries[k].link], 1), _entry_score(meta[entries[k].link]),
               lower(entries[k].title)>>
        ELSE <<_entry_score(meta[entries[k].link]), lower(entries[k].title)>>])

(***************************************************************************)
(* summarize.py: the ranker's reply and the selection constraints          *)
(***************************************************************************)

\* re.fullmatch(r"\d+", token)
IsNumber(token) == token # << >> /\ \A i \in 1..Len(token) : IsDigit(token[i])

\* r"\b\d+\b"
IndexPattern == <<Bnd, Cls(Digits, 1, Many), Bnd>>

\* the first loop of _parse_selection from candidate k on: the numbers in
\* 1..total not yet seen, until there are limit of them
RECURSIVE UniqueIndices(_, _, _, _, _)
UniqueIndices(candidates, k, unique, total, limit) ==
    IF k > Len(candidates) THEN unique
    ELSE With(IF /\ 1 <= candidates[k]
                 /\ candidates[k] <= total
                 /\ candidates[k] \notin Range(unique)
              THEN Append(unique, candidates[k])
              ELSE unique, LAMBDA next :
             IF Len(next) = limit THEN next
             ELSE UniqueIndices(candidates, k + 1, next, total, limit))

\* the fill with the highest unused numbers first
RECURSIVE FillIndices_descending(_, _, _, _)
FillIndices_descending(unique, number, total, limit) ==
    IF number > total THEN unique
    ELSE With(IF total + 1 - number \notin Range(unique)
              THEN Append(unique, total + 1 - number)
              ELSE unique, LAMBDA next :
             IF Len(next) = limit THEN next
             ELSE FillIndices_descending(next, number + 1, total, limit))

\* the second loop of _parse_selection from number on: the lowest unused
\* numbers of 1..total, until there are limit of them
RECURSIVE FillIndices(_, _, _, _)
FillIndices(unique, number, total, limit) ==
    IF number > total THEN unique
    ELSE With(IF number \notin Range(unique) THEN Append(unique, number) ELSE unique,
              LAMBDA next :
             IF Len(next) = limit THEN next
             ELSE FillIndices(next, number + 1, total, limit))

\* the numbers _parse_selection reads from the response: the tokens of the
\* comma-separated list that are numbers; where there is none, the numbers in
\* the text after the last colon
SelectionCandidates(response) ==
    With(SplitOn([i \in 1..Len(response) |-> IF response[i] = 10 THEN 32 ELSE response[i]], 44),
         LAMBDA tokens :
    With(SelectSeq([k \in 1..Len(tokens) |-> strip(tokens[k])], IsNumber), LAMBDA listed :
        IF listed # << >> THEN [k \in 1..Len(listed) |-> ToInt(listed[k])]
        ELSE With(findall(IndexPattern, From(response, RFind(response, 58, Len(response)) + 1), 0),
                  LAMBDA found : [k \in 1..Len(found) |-> ToInt(found[k])])))

\* _parse_selection
_parse_selection(response, total, limit) ==
    With(UniqueIndices(SelectionCandidates(response), 1, << >>, total, limit), LAMBDA unique :
        IF Len(unique) < limit THEN FillIndices(unique, 1, total, limit) ELSE unique)

\* max_items_per_source = None: no cap on the items of one source group
NoCap == -1

\* the threshold of _is_near_duplicate, 0.86
near_duplicate_threshold == Frac(86, 100)

\* the cap of _violates_diversity
diversity_cap == 2

\* the cap reached only when one more than max_items_per_source are selected
_hits_source_cap_after(entry, selected, max_items_per_source) ==
    /\ max_items_per_source # NoCap
    /\ Cardinality({i \in 1..Len(selected) : selected[i].source_group = entry.source_group})
         > max_items_per_source

\* _hits_source_cap: max_items_per_source selected items have the entry's source label
_hits_source_cap(entry, selected, max_items_per_source) ==
    /\ max_items_per_source # NoCap
    /\ Cardinality({i \in 1..Len(selected) : selected[i].source_group = entry.source_group})
         >= max_items_per_source

\* a near-duplicate found on any host: the titles alone decide
_is_near_duplicate_any_host(entry, selected) ==
    \E i \in 1..Len(selected) :
        FracGe(TitleSimilarityOf[<<entry.title, selected[i].title>>], near_duplicate_threshold)

\* _is_near_duplicate: a selected item on the entry's host whose title the
\* entry's title is similar to
_is_near_duplicate(entry, selected) ==
    \E i \in 1..Len(selected) :
        /\ HostnameOf[selected[i].link] = HostnameOf[entry.link]
        /\ FracGe(TitleSimilarityOf[<<entry.title, selected[i].title>>],
                  near_duplicate_threshold)

\* a diversity rule that never defers
_violates_diversity_never(entry, selected, remaining, meta) == FALSE

\* _violates_diversity
_violates_diversity(entry, selected, remaining, meta) ==
    /\ Len(selected) < 5
    /\ Cardinality({i \in 1..Len(selected) :
                      meta[selected[i].link].domain = meta[entry.link].domain}) >= diversity_cap
    /\ \E i \in 1..Len(remaining) : meta[remaining[i].link].domain # meta[entry.link].domain

\* the first loop without its test of the quality flags
RECURSIVE FirstPass_flags_unchecked(_, _, _, _, _, _, _)
FirstPass_flags_unchecked(candidate_pool, idx, selected, deferred, meta, limit, max_items_per_source) ==
    IF idx > Len(candidate_pool) \/ Len(selected) >= limit
    THEN [selected |-> selected, deferred |-> deferred]
    ELSE With(candidate_pool[idx], LAMBDA entry :
        IF _is_near_duplicate(entry, selected)
        THEN FirstPass_flags_unchecked(candidate_pool, idx + 1, selected, deferred, meta,
                                       limit, max_items_per_source)
        ELSE IF \/ _hits_source_cap(entry, selected, max_items_per_source)
                \/ _violates_diversity(entry, selected,
                                       SubSeq(candidate_pool, idx + 1, Len(candidate_pool)),
                                       meta)
        THEN FirstPass_flags_unchecked(candidate_pool, idx + 1, selected,
                                       Append(deferred, entry), meta, limit,
                                       max_items_per_source)
        ELSE FirstPass_flags_unchecked(candidate_pool, idx + 1, Append(selected, entry),
                                       deferred, meta, limit, max_items_per_source))

\* the first loop of _apply_selection_constraints from position idx on
\* (counted from 1): [selected, deferred] when it ends
RECURSIVE FirstPass(_, _, _, _, _, _, _)
FirstPass(candidate_pool, idx, selected, deferred, meta, limit, max_items_per_source) ==
    IF idx > Len(candidate_pool) \/ Len(selected) >= limit
    THEN [selected |-> selected, deferred |-> deferred]
    ELSE With(candidate_pool[idx], LAMBDA entry :
        IF _is_near_duplicate(entry, selected)
        THEN FirstPass(candidate_pool, idx + 1, selected, deferred, meta, limit,
                       max_items_per_source)
        ELSE IF \/ _hits_source_cap(entry, selected, max_items_per_source)
                \/ _violates_diversity(entry, selected,
                                       SubSeq(candidate_pool, idx + 1, Len(candidate_pool)),
                                       meta)
                \/ meta[entry.link].is_low_info
                \/ meta[entry.link].is_admin
        THEN FirstPass(candidate_pool, idx + 1, selected, Append(deferred, entry), meta,
                       limit, max_items_per_source)
        ELSE FirstPass(candidate_pool, idx + 1, Append(selected, entry), deferred, meta,
                       limit, max_items_per_source))

\* the second loop, over the deferred entries from position idx on: selected
\* when it ends
RECURSIVE DeferredReplay(_, _, _, _, _)
DeferredReplay(deferred, idx, selected, limit, max_items_per_source) ==
    IF idx > Len(deferred) \/ Len(selected) >= limit THEN selected
    ELSE IF \/ _is_near_duplicate(deferred[idx], selected)
            \/ _hits_source_cap(deferred[idx], selected, max_items_per_source)
    THEN DeferredReplay(deferred, idx + 1, selected, limit, max_items_per_source)
    ELSE DeferredReplay(deferred, idx + 1, Append(selected, deferred[idx]), limit,
                        max_items_per_source)

\* the final replay without its test of "entry in selected"
RECURSIVE FinalReplay_without_membership(_, _, _, _, _)
FinalReplay_without_membership(candidate_pool, idx, selected, limit, max_items_per_source) ==
    IF idx > Len(candidate_pool) \/ Len(selected) >= limit THEN selected
    ELSE IF \/ _is_near_duplicate(candidate_pool[idx], selected)
            \/ _hits_source_cap(candidate_pool[idx], selected, max_items_per_source)
    THEN FinalReplay_without_membership(candidate_pool, idx + 1, selected, limit,
                                        max_items_per_source)
    ELSE FinalReplay_without_membership(candidate_pool, idx + 1,
                                        Append(selected, candidate_pool[idx]), limit,
                                        max_items_per_source)

\* the third loop, over the whole candidate pool from position idx on, run
\* when selected is short of limit: selected when it ends
RECURSIVE FinalReplay(_, _, _, _, _)
FinalReplay(candidate_pool, idx, selected, limit, max_items_per_source) ==
    IF idx > Len(candidate_pool) \/ Len(selected) >= limit THEN selected
    ELSE IF \/ candidate_pool[idx] \in Range(selected)
            \/ _is_near_duplicate(candidate_pool[idx], selected)
            \/ _hits_source_cap(candidate_pool[idx], selected, max_items_per_source)
    THEN FinalReplay(candidate_pool, idx + 1, selected, limit, max_items_per_source)
    ELSE FinalReplay(candidate_pool, idx + 1, Append(selected, candidate_pool[idx]), limit,
                     max_items_per_source)

\* chosen + [entry for entry in ranked_entries if entry not in chosen]
CandidatePool(chosen, ranked_entries) ==
    chosen \o SelectSeq(ranked_entries, LAMBDA entry : entry \notin Range(chosen))

\* _apply_selection_constraints
_apply_selection_constraints(chosen, ranked_entries, meta, limit, max_items_per_source) ==
    With(CandidatePool(chosen, ranked_entries), LAMBDA candidate_pool :
    With(FirstPass(candidate_pool, 1, << >>, << >>, meta, limit, max_items_per_source),
         LAMBDA first :
        FinalReplay(candidate_pool, 1,
                    DeferredReplay(first.deferred, 1, first.selected, limit,
                                   max_items_per_source),
                    limit, max_items_per_source)))

\* select_top_items with the ranker's reply given: the entries returned
select_top_items_with(entries, topic, limit, max_items_per_source, selection) ==
    With(IF topic = LOCAL_NEWS_TOPIC THEN _filter_local_news_entries(entries) ELSE entries,
         LAMBDA filtered_entries :
    With(meta_by_link(filtered_entries), LAMBDA meta :
    With(_rank_entries(topic, filtered_entries, meta), LAMBDA ranked_entries :
        IF Len(filtered_entries) <= limit
        THEN _apply_selection_constraints(ranked_entries, ranked_entries, meta, limit,
                                          max_items_per_source)
        ELSE With(_parse_selection(selection, Len(ranked_entries), limit), LAMBDA indices :
                 _apply_selection_constraints([k \in 1..Len(indices) |->
                                                  ranked_entries[indices[k]]],
                                              ranked_entries, meta, limit,
                                              max_items_per_source)))))

VARIABLES
    config,            \* DailyPaperConfig: dry_run, max_items_processed_per_source,
                       \* max_items_per_source
    seen_urls,         \* fetch_feeds: set of canonical URLs
    seen_entries,      \* fetch_feeds: list of SeenEntry
    entries_by_topic,  \* fetch_feeds: topic name -> list of FeedEntry
    clock,             \* the value of now of the latest call
    calls,             \* the number of _register_entry calls made
    last,              \* the latest entry handled: the call's arguments and outcome,
                       \* and the three structures as the call found them
    loop,              \* fetch_feeds: where its loops stand and the counters of the feed
    stats,             \* fetch_feeds: FetchStats
    select,            \* select_top_items: its arguments, where it stands and its locals
    probe              \* a function called on its own: its name, arguments and result

registryVars == <<seen_urls, seen_entries, entries_by_topic>>

fetchVars == <<loop, stats>>

vars ==
    <<config, seen_urls, seen_entries, entries_by_topic, clock, calls, last, loop, stats,
      select, probe>>

\* the number of _register_entry calls a run makes
MaxCalls == 3

\* the largest max_items_processed_per_source a configuration has
MaxFeedItems == 2

NoCall ==
    [action |-> "none", item |-> << >>, published_dt |-> NoTime, now |-> T0,
     compare_window_hours |-> 0, prune_window_hours |-> 0, before |-> << >>,
     urls |-> {}, buckets |-> [t \in TopicNames |-> << >>]]

\* the largest max_items_per_source a configuration has
MaxSourceCap == 2

Configs ==
    [dry_run : BOOLEAN, max_items_processed_per_source : 1..MaxFeedItems,
     max_items_per_source : {NoCap} \cup 1..MaxSourceCap]

\* select_top_items not called
SelectIdle ==
    [pc |-> "idle", topic |-> "World", limit |-> 0, entries |-> << >>,
     filtered_entries |-> << >>, ranked_entries |-> << >>, ranker |-> "none",
     selection |-> << >>, chosen |-> << >>, candidate_pool |-> << >>,
     selected |-> << >>, deferred |-> << >>]

\* no function has been called on its own
ProbeIdle == [fn |-> "none", pc |-> "idle", args |-> << >>, result |-> << >>]

\* fetch_feeds before its first feed
LoopStart ==
    [pc |-> "parse", topic |-> 1, feed |-> 1, idx |-> 0,
     added |-> 0, skipped |-> 0, duplicates |-> 0, out_of_window |-> 0]

StatsStart == [sources_checked |-> 0, no_result_sources |-> << >>]

Init ==
    /\ config \in {c \in Configs : /\ c.max_items_processed_per_source = MaxFeedItems
                                   /\ c.max_items_per_source = NoCap}
    /\ probe = ProbeIdle
    /\ select = SelectIdle
    /\ seen_urls = {}
    /\ seen_entries = << >>
    /\ entries_by_topic = [t \in TopicNames |-> << >>]
    /\ clock = T0
    /\ calls = 0
    /\ last = NoCall
    /\ loop = LoopStart
    /\ stats = StatsStart

\* one call _register_entry(config, entries_by_topic, seen_urls, seen_entries,
\* item, published_dt, now, compare_window_hours, prune_window_hours), with the
\* arguments fetch_feeds passes for an entry of the corpus
Register(r, now) ==
    /\ calls < MaxCalls
    /\ now >= clock
    /\ Corpus[r].link # << >>
    /\ NormalizedUrl[r].ok
    /\ \E raw \in {Corpus[r]}, item \in {CorpusItem[r]} :
       \E topic \in {Topics[TopicOfFeed(raw.feed)]} :
       \E res \in {_register_entry(config.dry_run, entries_by_topic, seen_urls,
                                    seen_entries, item, raw.published, now,
                                    topic.lookback_hours, max_lookback_hours)} :
        /\ item.title # << >>
        /\ seen_urls' = res.state.seen_urls
        /\ seen_entries' = res.state.seen_entries
        /\ entries_by_topic' = res.state.entries_by_topic
        /\ clock' = now
        /\ calls' = calls + 1
        /\ last' = [action |-> res.action, item |-> item, published_dt |-> raw.published,
                    now |-> now, compare_window_hours |-> topic.lookback_hours,
                    prune_window_hours |-> max_lookback_hours, before |-> seen_entries,
                    urls |-> seen_urls, buckets |-> entries_by_topic]
        /\ UNCHANGED <<config, fetchVars, select, probe>>

Next == \E r \in 1..Len(Corpus), now \in Nows : Register(r, now)

Spec == Init /\ [][Next]_vars

(***************************************************************************)
(* fetch.py: fetch_feeds, one step per feed parsed and per entry handled   *)
(***************************************************************************)

\* the loops of fetch_feeds move on to the next feed, the next topic or the end
NextFeed(at) ==
    IF at.feed < Len(Topics[at.topic].feeds)
    THEN [LoopStart EXCEPT !.topic = at.topic, !.feed = at.feed + 1]
    ELSE IF at.topic < Len(Topics)
    THEN [LoopStart EXCEPT !.topic = at.topic + 1]
    ELSE [LoopStart EXCEPT !.pc = "done", !.topic = at.topic, !.feed = at.feed]

CurrentFeed == Topics[loop.topic].feeds[loop.feed]

FetchInit ==
    /\ config \in {c \in Configs : c.max_items_per_source = NoCap}
    /\ probe = ProbeIdle
    /\ select = SelectIdle
    /\ seen_urls = {}
    /\ seen_entries = << >>
    /\ entries_by_topic = [t \in TopicNames |-> << >>]
    /\ clock \in Nows
    /\ calls = 0
    /\ last = NoCall
    /\ loop = LoopStart
    /\ stats = StatsStart

\* parse_feed returns entries, or nothing with bozo set: the feed is then
\* counted as a source without result and the loop moves on
ParseFeed(failed) ==
    /\ loop.pc = "parse"
    /\ failed => ~config.dry_run
    /\ stats' = [sources_checked |-> stats.sources_checked + 1,
                 no_result_sources |->
                     IF failed THEN Append(stats.no_result_sources, Feeds[CurrentFeed].name)
                     ELSE stats.no_result_sources]
    /\ loop' = IF failed THEN NextFeed(loop) ELSE [loop EXCEPT !.pc = "entries"]
    /\ UNCHANGED <<config, registryVars, clock, calls, last, select, probe>>

\* one iteration of the loop over parsed.entries. The ValueError normalize_url
\* raises on a malformed link is caught nowhere: it ends fetch_feeds and the
\* run, which is the step to "raised"
HandleEntry(raw, item, normalized) ==
    /\ loop.pc = "entries"
    /\ loop.idx < config.max_items_processed_per_source
    /\ \E topic \in {Topics[loop.topic]}, published_dt \in {raw.published} :
       \E filtered \in {IF raw.link = << >> \/ item.title = << >>
                        THEN "no_link_or_title"
                        ELSE IF ~normalized.ok
                        THEN "raised"
                        ELSE IF ~config.dry_run
                                /\ ~is_within_hours(published_dt, clock,
                                                    topic.lookback_hours)
                        THEN "out_of_window"
                        ELSE "no"} :
       \E res \in {IF filtered # "no" THEN [action |-> filtered]
                   ELSE _register_entry(config.dry_run, entries_by_topic, seen_urls,
                                        seen_entries, item, published_dt, clock,
                                        topic.lookback_hours, max_lookback_hours)} :
       \E outcome \in {res.action}, registered \in {filtered = "no"} :
        /\ loop' = IF outcome = "raised" THEN [loop EXCEPT !.pc = "raised"]
                   ELSE
                   [loop EXCEPT
                      !.idx = @ + 1,
                      !.skipped = IF outcome = "no_link_or_title" THEN @ + 1 ELSE @,
                      !.out_of_window = IF outcome = "out_of_window" THEN @ + 1 ELSE @,
                      !.duplicates = IF outcome \in {"skipped", "replaced"} THEN @ + 1 ELSE @,
                      !.added = IF outcome \in {"added", "replaced"} THEN @ + 1 ELSE @]
        /\ seen_urls' = IF registered THEN res.state.seen_urls ELSE seen_urls
        /\ seen_entries' = IF registered THEN res.state.seen_entries ELSE seen_entries
        /\ entries_by_topic' = IF registered THEN res.state.entries_by_topic
                               ELSE entries_by_topic
        /\ calls' = IF registered THEN calls + 1 ELSE calls
        /\ last' = [action |-> outcome, item |-> item, published_dt |-> published_dt,
                    now |-> clock, compare_window_hours |-> topic.lookback_hours,
                    prune_window_hours |-> max_lookback_hours, before |-> seen_entries,
                    urls |-> seen_urls, buckets |-> entries_by_topic]
        /\ UNCHANGED <<config, clock, stats, select, probe>>

\* the feed yields the entry r of the corpus next
FetchEntry(r) ==
    /\ ~config.dry_run
    /\ Corpus[r].feed = CurrentFeed
    /\ HandleEntry(Corpus[r], CorpusItem[r], NormalizedUrl[r])

\* a dry run handles the placeholder entries of the feed in turn
FetchDryRunEntry ==
    /\ config.dry_run
    /\ loop.pc = "entries"
    /\ loop.idx < Len(DryRunEntries(Feeds[CurrentFeed]))
    /\ LET raw == DryRunEntries(Feeds[CurrentFeed])[loop.idx + 1]
           normalized == normalize_url(raw.link)
       IN  HandleEntry(raw, BuildItem(Topics[loop.topic], Feeds[CurrentFeed], raw,
                                      normalized.url), normalized)

\* the entries of the feed are exhausted, or the next one is past
\* max_items_processed_per_source
EndFeed ==
    /\ loop.pc = "entries"
    /\ config.dry_run =>
          loop.idx = Min(Len(DryRunEntries(Feeds[CurrentFeed])),
                         config.max_items_processed_per_source)
    /\ stats' = [stats EXCEPT !.no_result_sources =
                    IF loop.added = 0 THEN Append(@, Feeds[CurrentFeed].name) ELSE @]
    /\ loop' = NextFeed(loop)
    /\ UNCHANGED <<config, registryVars, clock, calls, last, select, probe>>

FetchNext ==
    \/ \E failed \in BOOLEAN : ParseFeed(failed)
    \/ \E r \in 1..Len(Corpus) : FetchEntry(r)
    \/ FetchDryRunEntry
    \/ EndFeed

SpecFetch == FetchInit /\ [][FetchNext]_vars

(***************************************************************************)
(* summarize.py: select_top_items, one step per stage: the ranking, the    *)
(* ranker's reply, and each of the three loops of                          *)
(* _apply_selection_constraints                                            *)
(***************************************************************************)

\* the most entries select_top_items is handed
MaxPool == 6

\* the largest limit select_top_items is called with
MaxLimit == 4

\* the largest limit select_top_items is called with on a pool of seven
\* entries and more
WideLimit == 7

\* the pools of at most MaxPool entries, from the first eight of the corpus
NarrowPools == {p \in SUBSET (1..8) : Cardinality(p) <= MaxPool}

\* the pools of seven entries and more, the last two of the corpus among them
WidePools == {p \in SUBSET (1..Len(SelectCorpus)) : {9, 10} \subseteq p /\ Cardinality(p) >= 7}

\* the entries of the corpus numbered in pool, in the order of the corpus
PoolEntries(pool, topic) ==
    With(SelectSeq([k \in 1..Len(SelectCorpus) |-> k], LAMBDA k : k \in pool), LAMBDA order :
        [i \in 1..Len(order) |-> SelectEntry(order[i], topic)])

\* replies of the ranker: "2, 1, 3", "not a valid response", "Top 2: 3 and 1",
\* "4,4,9,0", "" and "3, 2, 4"
Responses ==
    {<<50, 44, 32, 49, 44, 32, 51>>,
     <<110, 111, 116, 32, 97, 32, 118, 97, 108, 105, 100, 32, 114, 101, 115, 112, 111, 110, 115, 101>>,
     <<84, 111, 112, 32, 50, 58, 32, 51, 32, 97, 110, 100, 32, 49>>,
     <<52, 44, 52, 44, 57, 44, 48>>,
     <<>>,
     <<51, 44, 32, 50, 44, 32, 52>>}

\* select_top_items(config, entries, topic, limit) is called, the ranker a
\* real one (not a dry run)
SelectInit ==
    /\ probe = ProbeIdle
    /\ config \in {c \in Configs : /\ ~c.dry_run
                                   /\ c.max_items_processed_per_source = MaxFeedItems}
    /\ seen_urls = {}
    /\ seen_entries = << >>
    /\ entries_by_topic = [t \in TopicNames |-> << >>]
    /\ clock = T0
    /\ calls = 0
    /\ last = NoCall
    /\ loop = LoopStart
    /\ stats = StatsStart
    /\ \/ select \in {[SelectIdle EXCEPT !.pc = "called", !.topic = topic, !.limit = limit,
                                         !.entries = PoolEntries(pool, topic)] :
                        pool \in NarrowPools,
                        topic \in {"World", LOCAL_NEWS_TOPIC},
                        limit \in 1..MaxLimit}
       \/ select \in {[SelectIdle EXCEPT !.pc = "called", !.topic = "World", !.limit = limit,
                                         !.entries = PoolEntries(pool, "World")] :
                        pool \in WidePools,
                        limit \in (MaxLimit + 1)..WideLimit}

\* the Local News filter and _rank_entries
SelectRank ==
    /\ select.pc = "called"
    /\ \E filtered_entries \in {IF select.topic = LOCAL_NEWS_TOPIC
                                THEN _filter_local_news_entries(select.entries)
                                ELSE select.entries} :
         select' = [select EXCEPT
                      !.pc = "ranked",
                      !.filtered_entries = filtered_entries,
                      !.ranked_entries = _rank_entries(select.topic, filtered_entries,
                                                       meta_by_link(filtered_entries))]
    /\ UNCHANGED <<config, registryVars, clock, calls, last, fetchVars, probe>>

\* a short circuit that returns the ranked entries as they are
SelectShortCircuit_unconstrained ==
    /\ select.pc = "ranked"
    /\ Len(select.filtered_entries) <= select.limit
    /\ select' = [select EXCEPT !.pc = "returned", !.chosen = select.ranked_entries,
                                !.candidate_pool = select.ranked_entries,
                                !.selected = select.ranked_entries]
    /\ UNCHANGED <<config, registryVars, clock, calls, last, fetchVars, probe>>

\* len(filtered_entries) <= limit: the ranker is not asked
SelectShortCircuit ==
    /\ select.pc = "ranked"
    /\ Len(select.filtered_entries) <= select.limit
    /\ select' = [select EXCEPT !.pc = "chosen", !.chosen = select.ranked_entries]
    /\ UNCHANGED <<config, registryVars, clock, calls, last, fetchVars, probe>>

\* client.chat_completion returns a reply; _parse_selection reads the indices
SelectAsk(response) ==
    /\ select.pc = "ranked"
    /\ Len(select.filtered_entries) > select.limit
    /\ \E indices \in {_parse_selection(response, Len(select.ranked_entries), select.limit)} :
         select' = [select EXCEPT
                      !.pc = "chosen",
                      !.ranker = "answered",
                      !.selection = response,
                      !.chosen = [k \in 1..Len(indices) |-> select.ranked_entries[indices[k]]]]
    /\ UNCHANGED <<config, registryVars, clock, calls, last, fetchVars, probe>>

\* get_client or client.chat_completion raises OpenAIError; select_top_items
\* has no handler, nor has its caller
SelectRankerRaises ==
    /\ select.pc = "ranked"
    /\ Len(select.filtered_entries) > select.limit
    /\ ~config.dry_run
    /\ select' = [select EXCEPT !.pc = "raised", !.ranker = "failed"]
    /\ UNCHANGED <<config, registryVars, clock, calls, last, fetchVars, probe>>

\* _apply_selection_constraints: the candidate pool and the first loop
SelectFirstPass ==
    /\ select.pc = "chosen"
    /\ \E candidate_pool \in {CandidatePool(select.chosen, select.ranked_entries)} :
       \E first \in {FirstPass(candidate_pool, 1, << >>, << >>,
                               meta_by_link(select.filtered_entries), select.limit,
                               config.max_items_per_source)} :
         select' = [select EXCEPT
                      !.pc = "first",
                      !.candidate_pool = candidate_pool,
                      !.selected = first.selected,
                      !.deferred = first.deferred]
    /\ UNCHANGED <<config, registryVars, clock, calls, last, fetchVars, probe>>

\* _apply_selection_constraints: the loop over the deferred entries
SelectDeferredReplay ==
    /\ select.pc = "first"
    /\ select' = [select EXCEPT
                    !.pc = "deferred",
                    !.selected = DeferredReplay(select.deferred, 1, select.selected,
                                                select.limit, config.max_items_per_source)]
    /\ UNCHANGED <<config, registryVars, clock, calls, last, fetchVars, probe>>

\* _apply_selection_constraints: the last loop, and the return
SelectFinalReplay ==
    /\ select.pc = "deferred"
    /\ select' = [select EXCEPT
                    !.pc = "returned",
                    !.selected = FinalReplay(select.candidate_pool, 1, select.selected,
                                             select.limit, config.max_items_per_source)]
    /\ UNCHANGED <<config, registryVars, clock, calls, last, fetchVars, probe>>

SelectNext ==
    \/ SelectRank
    \/ SelectShortCircuit
    \/ \E response \in Responses : SelectAsk(response)
    \/ SelectRankerRaises
    \/ SelectFirstPass
    \/ SelectDeferredReplay
    \/ SelectFinalReplay

SpecSelect == SelectInit /\ [][SelectNext]_vars

(***************************************************************************)
(* Functions called on their own, on arguments drawn from small sets       *)
(***************************************************************************)

\* pairs of URLs that differ only in scheme, in tracking query parameters, in
\* a trailing slash on the path and in the fragment: hosts a.io and A.io:80,
\* paths "", "/", "/x", "/x/", queries "", "q=1", fragments "", "top"; the
\* second URL may have another scheme, one more "/" on its path, one of the
\* parameters utm_id=7, Ref=z, gclid= in its query and another fragment
UrlPairs ==
    LET Build(scheme, host, path, query, fragment) ==
            scheme \o <<58, 47, 47>> \o host \o path
            \o (IF query # << >> THEN <<63>> \o query ELSE << >>)
            \o (IF fragment # << >> THEN <<35>> \o fragment ELSE << >>)
        Join(query, tracking) ==
            IF query = << >> THEN tracking
            ELSE IF tracking = << >> THEN query
            ELSE query \o <<38>> \o tracking
        Schemes == {HTTP, HTTPS}
        Fragments == {<< >>, <<116, 111, 112>>}
    IN  {<<Build(s1, host, path, query, f1),
           Build(s2, host, path \o slash, Join(query, tracking), f2)>> :
            s1 \in Schemes, s2 \in Schemes, f1 \in Fragments, f2 \in Fragments,
            host \in {<<97, 46, 105, 111>>, <<65, 46, 105, 111, 58, 56, 48>>},
            path \in {<< >>, <<47>>, <<47, 120>>, <<47, 120, 47>>},
            slash \in {<< >>, <<47>>},
            query \in {<< >>, <<113, 61, 49>>},
            tracking \in {<< >>, <<117, 116, 109, 95, 105, 100, 61, 55>>, <<82, 101, 102, 61, 122>>, <<103, 99, 108, 105, 100, 61>>}}

\* texts to compare: "Fed raises rates", "Fed Raises Rates!", "rates",
\* "Новости дня" (Cyrillic), "?!", "2024", " " and ""
Texts ==
    {<<70, 101, 100, 32, 114, 97, 105, 115, 101, 115, 32, 114, 97, 116, 101, 115>>,
     <<70, 101, 100, 32, 82, 97, 105, 115, 101, 115, 32, 82, 97, 116, 101, 115, 33>>,
     <<114, 97, 116, 101, 115>>,
     <<1053, 1086, 1074, 1086, 1089, 1090, 1080, 32, 1076, 1085, 1103>>,
     <<63, 33>>,
     <<50, 48, 50, 52>>,
     <<32>>,
     << >>}

\* the arguments are drawn
ProbeInit ==
    /\ config = [dry_run |-> FALSE, max_items_processed_per_source |-> MaxFeedItems,
                 max_items_per_source |-> NoCap]
    /\ select = SelectIdle
    /\ seen_urls = {}
    /\ seen_entries = << >>
    /\ entries_by_topic = [t \in TopicNames |-> << >>]
    /\ clock = T0
    /\ calls = 0
    /\ last = NoCall
    /\ loop = LoopStart
    /\ stats = StatsStart
    /\ \/ \E pair \in UrlPairs :
             probe = [fn |-> "normalize_url", pc |-> "drawn", args |-> pair,
                      result |-> << >>]
       \/ \E left \in Texts, right \in Texts :
             probe = [fn |-> "title_similarity", pc |-> "drawn", args |-> <<left, right>>,
                      result |-> << >>]
       \/ \E a \in 1..8, b \in 1..8 :
             probe = [fn |-> "_is_better_entry", pc |-> "drawn",
                      args |-> <<SelectEntry(a, "World"), SelectEntry(b, "World")>>,
                      result |-> << >>]
       \/ \E response \in Responses, total \in 0..MaxPool, limit \in 0..MaxLimit :
             probe = [fn |-> "_parse_selection", pc |-> "drawn",
                      args |-> <<response, total, limit>>, result |-> << >>]

\* normalize_url(url) on each URL of the pair
Canonicalize ==
    /\ probe.fn = "normalize_url"
    /\ probe.pc = "drawn"
    /\ probe' = [probe EXCEPT !.pc = "returned",
                              !.result = <<normalize_url(probe.args[1]),
                                           normalize_url(probe.args[2])>>]
    /\ UNCHANGED <<config, registryVars, clock, calls, last, fetchVars, select>>

\* title_similarity(left, right)
CompareTitles ==
    /\ probe.fn = "title_similarity"
    /\ probe.pc = "drawn"
    /\ probe' = [probe EXCEPT !.pc = "returned",
                              !.result = title_similarity(probe.args[1], probe.args[2])]
    /\ UNCHANGED <<config, registryVars, clock, calls, last, fetchVars, select>>

\* _is_better_entry(candidate, existing) as _register_entry calls it, next to
\* _entry_score(_entry_meta(entry)) of the two entries as _rank_entries uses it
JudgeBetter ==
    /\ probe.fn = "_is_better_entry"
    /\ probe.pc = "drawn"
    /\ probe' = [probe EXCEPT
                   !.pc = "returned",
                   !.result = [better |-> _is_better_entry(probe.args[1], probe.args[2]),
                               candidate |-> _entry_score(_entry_meta(probe.args[1])),
                               existing |-> _entry_score(_entry_meta(probe.args[2]))]]
    /\ UNCHANGED <<config, registryVars, clock, calls, last, fetchVars, select>>

\* _parse_selection(response, total, limit)
ParseIndices ==
    /\ probe.fn = "_parse_selection"
    /\ probe.pc = "drawn"
    /\ probe' = [probe EXCEPT
                   !.pc = "returned",
                   !.result = _parse_selection(probe.args[1], probe.args[2], probe.args[3])]
    /\ UNCHANGED <<config, registryVars, clock, calls, last, fetchVars, select>>

ProbeNext ==
    \/ Canonicalize
    \/ CompareTitles
    \/ JudgeBetter
    \/ ParseIndices

SpecProbe == ProbeInit /\ [][ProbeNext]_vars

(***************************************************************************)
(* SpecPost: one call of OpenAIClient._post_with_retries. probe.args holds *)
(* the client's fields, probe.result the position of the loop: attempt is  *)
(* the loop variable, posts the number of requests.post calls made, event  *)
(* what the latest one did, status the status code of its response (0 for  *)
(* none), slept the seconds spent in time.sleep.                           *)
(***************************************************************************)

\* the largest max_retries a client is built with
MaxRetries == 3

\* the status codes a response carries: one that is fine, one client error
\* and the five retryable ones
StatusCodes == {200, 400, 429, 500, 502, 503, 504}

\* retryable_statuses
retryable_statuses == {429, 500, 502, 503, 504}

\* max_attempts = max(self.max_retries, 0) + 1
max_attempts == Max(probe.args.max_retries, 0) + 1

\* two to the power n
RECURSIVE Pow2(_)
Pow2(n) == IF n <= 0 THEN 1 ELSE 2 * Pow2(n - 1)

\* _post_with_retries is called on a client; max_retries may be negative and
\* so may retry_backoff
PostInit ==
    /\ config = [dry_run |-> FALSE, max_items_processed_per_source |-> MaxFeedItems,
                 max_items_per_source |-> NoCap]
    /\ select = SelectIdle
    /\ seen_urls = {}
    /\ seen_entries = << >>
    /\ entries_by_topic = [t \in TopicNames |-> << >>]
    /\ clock = T0
    /\ calls = 0
    /\ last = NoCall
    /\ loop = LoopStart
    /\ stats = StatsStart
    /\ \E max_retries \in -1..MaxRetries, retry_on_timeout \in BOOLEAN, retry_backoff \in -1..1 :
          probe = [fn |-> "_post_with_retries", pc |-> "for",
                   args |-> [max_retries |-> max_retries,
                             retry_on_timeout |-> retry_on_timeout,
                             retry_backoff |-> retry_backoff],
                   result |-> [attempt |-> 1, posts |-> 0, event |-> "none", status |-> 0,
                               slept |-> 0]]

\* for attempt in range(1, max_attempts + 1): the next requests.post is sent,
\* or the range is used up and the raise after the loop is reached
NextAttempt ==
    /\ probe.fn = "_post_with_retries"
    /\ probe.pc = "for"
    /\ probe' = IF probe.result.attempt <= max_attempts
                THEN [probe EXCEPT !.pc = "post", !.result.posts = @ + 1]
                ELSE [probe EXCEPT !.pc = "raised", !.result.event = "exhausted"]
    /\ UNCHANGED <<config, registryVars, clock, calls, last, fetchVars, select>>

\* requests.post returns a response: a retryable status on an attempt that
\* is not the last one backs off, any other response is returned
PostResponds(status) ==
    /\ probe.fn = "_post_with_retries"
    /\ probe.pc = "post"
    /\ probe' = [probe EXCEPT
                   !.result.event = "response",
                   !.result.status = status,
                   !.pc = IF status \in retryable_statuses
                             /\ probe.result.attempt # max_attempts
                          THEN "backoff" ELSE "returned"]
    /\ UNCHANGED <<config, registryVars, clock, calls, last, fetchVars, select>>

\* a timeout that is always followed by a back-off
PostTimesOut_always_retried ==
    /\ probe.fn = "_post_with_retries"
    /\ probe.pc = "post"
    /\ probe' = [probe EXCEPT !.result.event = "timeout", !.result.status = 0,
                              !.pc = "backoff"]
    /\ UNCHANGED <<config, registryVars, clock, calls, last, fetchVars, select>>

\* requests.post raises Timeout: raised again unless retry_on_timeout is set
\* and this is not the last attempt
PostTimesOut ==
    /\ probe.fn = "_post_with_retries"
    /\ probe.pc = "post"
    /\ probe' = [probe EXCEPT
                   !.result.event = "timeout",
                   !.result.status = 0,
                   !.pc = IF ~probe.args.retry_on_timeout
                             \/ probe.result.attempt = max_attempts
                          THEN "raised" ELSE "backoff"]
    /\ UNCHANGED <<config, registryVars, clock, calls, last, fetchVars, select>>

\* requests.post raises ConnectionError: raised again on the last attempt
PostConnectionFails ==
    /\ probe.fn = "_post_with_retries"
    /\ probe.pc = "post"
    /\ probe' = [probe EXCEPT
                   !.result.event = "connection",
                   !.result.status = 0,
                   !.pc = IF probe.result.attempt = max_attempts
                          THEN "raised" ELSE "backoff"]
    /\ UNCHANGED <<config, registryVars, clock, calls, last, fetchVars, select>>

\* requests.post raises an exception neither except clause names (an invalid
\* header, too many redirects): it leaves the loop
PostRaisesOther ==
    /\ probe.fn = "_post_with_retries"
    /\ probe.pc = "post"
    /\ probe' = [probe EXCEPT !.result.event = "other", !.result.status = 0,
                              !.pc = "raised"]
    /\ UNCHANGED <<config, registryVars, clock, calls, last, fetchVars, select>>

\* _backoff(attempt) and continue: time.sleep(retry_backoff * 2 ** (attempt - 1)),
\* which raises ValueError for a negative length
Backoff ==
    /\ probe.fn = "_post_with_retries"
    /\ probe.pc = "backoff"
    /\ \E delay \in {probe.args.retry_backoff * Pow2(probe.result.attempt - 1)} :
          probe' = IF delay < 0
                   THEN [probe EXCEPT !.pc = "raised", !.result.event = "sleep"]
                   ELSE [probe EXCEPT !.pc = "for",
                                      !.result.attempt = @ + 1,
                                      !.result.slept = @ + delay]
    /\ UNCHANGED <<config, registryVars, clock, calls, last, fetchVars, select>>

PostNext ==
    \/ NextAttempt
    \/ \E status \in StatusCodes : PostResponds(status)
    \/ PostTimesOut
    \/ PostConnectionFails
    \/ PostRaisesOther
    \/ Backoff

SpecPost == PostInit /\ [][PostNext]_vars

\* requests.post is called with timeout=self.timeout and time.sleep with a
\* finite length: each of them ends, so a step that can be taken is taken
SpecPostFair == SpecPost /\ WF_vars(PostNext)

(***************************************************************************)
(* Properties of the dedup registry under direct _register_entry calls     *)
(***************************************************************************)

\* a call has been made and it went through the registry (not the dry-run path)
Registered == last.action # "none" /\ ~config.dry_run

\* the SeenEntry is older than the latest call's prune window
Stale(seen) ==
    seen.published # NoTime /\ seen.published < last.now - Hours(last.prune_window_hours)

\* the records the latest call found tracked once its prune pass had run
Survivors == SelectSeq(last.before, LAMBDA seen : ~Stale(seen))

\* the first survivor with the canonical URL of the record just registered, 0 for none
UrlMatch ==
    LET hits == {i \in 1..Len(Survivors) : Survivors[i].canonical_url = last.item.link}
    IN  IF hits = {} THEN 0 ELSE CHOOSE i \in hits : \A j \in hits : i <= j

\* C1: after any sequence of register calls the URL index seen_urls is exactly
\* the set of canonical_url values of the records in seen_entries
C1_IndexIsTrackedUrls ==
    seen_urls = {seen_entries[i].canonical_url : i \in 1..Len(seen_entries)}

\* C2: when the record registered has the canonical URL of a record tracked
\* after the prune pass, the call returns replaced if and only if the incoming
\* quality score is strictly greater than the kept record's; otherwise it
\* returns skipped and the earlier record stays the kept one, the list untouched
C2_ReplacedIffStrictlyBetter ==
    (Registered /\ UrlMatch # 0) =>
        LET old == Survivors[UrlMatch].entry
            better == FracGt(_entry_quality_score(last.item), _entry_quality_score(old))
        IN  /\ last.action = (IF better THEN "replaced" ELSE "skipped")
            /\ Len(seen_entries) = Len(Survivors)
            /\ seen_entries[UrlMatch].entry = (IF better THEN last.item ELSE old)
            /\ ~better => seen_entries = Survivors

\* C2 witness: a record with the URL and the very score of the kept record was
\* registered and skipped
C2_TieSkipped ==
    /\ Registered
    /\ UrlMatch # 0
    /\ _entry_quality_score(last.item) = _entry_quality_score(Survivors[UrlMatch].entry)
    /\ last.action = "skipped"

\* C3: the prune pass of a register call removes exactly the records whose
\* publish time is known and strictly older than now - prune_window_hours:
\* every other record keeps its slot (with its own record or, after a
\* replacement, the incoming one) and at most the incoming record is appended
C3_PruneRemovesExactlyStale ==
    Registered =>
        /\ Len(seen_entries) \in {Len(Survivors), Len(Survivors) + 1}
        /\ \A i \in 1..Len(Survivors) :
              \/ seen_entries[i] = Survivors[i]
              \/ /\ last.action = "replaced"
                 /\ seen_entries[i].entry = last.item
        /\ Len(seen_entries) = Len(Survivors) + 1 =>
              /\ last.action = "added"
              /\ seen_entries[Len(seen_entries)].entry = last.item

\* C3 witness: with a 24-hour prune window the call found one record published
\* exactly 25 hours before now, which is gone, and the list is not empty after it
C3_DayOldPruned ==
    /\ Registered
    /\ last.prune_window_hours = 24
    /\ \E i \in 1..Len(last.before) :
          /\ last.before[i].published = last.now - Hours(25)
          /\ \A j \in 1..Len(seen_entries) : seen_entries[j] # last.before[i]
    /\ seen_entries # << >>

(***************************************************************************)
(* Properties of ingestion: fetch_feeds                                    *)
(***************************************************************************)

\* C4: an entry with no (or an unparseable) publish time is never discarded on
\* time grounds: fetch_feeds does not count it out of window but hands it to
\* _register_entry, which resolves it as added, replaced or skipped, and no
\* prune pass removes the SeenEntry of an undated record
C4_UndatedNeverDiscarded ==
    /\ (last.published_dt = NoTime /\ last.action \notin {"none", "no_link_or_title"}) =>
           last.action \in {"added", "replaced", "skipped"}
    /\ \A i \in 1..Len(last.before) :
           (last.action \in {"added", "replaced", "skipped"}
            /\ last.before[i].published = NoTime) =>
               /\ i <= Len(seen_entries)
               /\ seen_entries[i] = last.before[i] \/ seen_entries[i].entry = last.item

(***************************************************************************)
(* The selection engine: select_top_items                                  *)
(***************************************************************************)

Returned == select.pc = "returned"

SelectMeta == meta_by_link(select.filtered_entries)

\* what _apply_selection_constraints gives on the quality-ranked order alone
QualityOrderResult ==
    _apply_selection_constraints(select.ranked_entries, select.ranked_entries, SelectMeta,
                                 select.limit, config.max_items_per_source)

\* the number of entries with a source group
SourceCount(entries, group) ==
    Cardinality({i \in 1..Len(entries) : entries[i].source_group = group})

\* the number of entries a cap admits: of every source group, cap at most
Admissible(entries, cap) ==
    Cardinality({i \in 1..Len(entries) :
                   Cardinality({j \in 1..(i - 1) :
                                  entries[j].source_group = entries[i].source_group}) < cap})

\* the source cap is no bottleneck: there is none, or it admits limit entries
CapNotBottleneck(entries) ==
    \/ config.max_items_per_source = NoCap
    \/ Admissible(entries, config.max_items_per_source) >= select.limit

\* the registry of fetch.py takes every entry for a story of its own
Deduplicated(entries) ==
    \A i, j \in 1..Len(entries) :
        i # j => ~RegistryDuplicateOf[<<entries[i].link, entries[j].link>>]

\* the entry left is a near-duplicate of the entry right for the selection
SimilarOnHost(left, right) ==
    /\ HostnameOf[left.link] = HostnameOf[right.link]
    /\ FracGe(TitleSimilarityOf[<<left.title, right.title>>], near_duplicate_threshold)

\* C5: when the ranker call raises, select_top_items does not pass the failure
\* on: it completes, and returns what the quality-ranked order alone gives
C5_RankerFailureContained ==
    select.ranker = "failed" =>
        /\ select.pc # "raised"
        /\ Returned => select.selected = QualityOrderResult

\* the reply holds no number of 1..len(ranked_entries)
NoUsableIndex ==
    \A k \in 1..Len(SelectionCandidates(select.selection)) :
        SelectionCandidates(select.selection)[k] \notin 1..Len(select.ranked_entries)

\* C6: when the ranker's reply holds no usable index, select_top_items returns
\* the very list it returns from the quality-ranked order with no ranker
C6_GarbageReplyGivesQualityOrder ==
    (Returned /\ select.ranker = "answered" /\ NoUsableIndex)
        => select.selected = QualityOrderResult

\* the ranker replied "not a valid response" and limit entries are returned
C6_GarbageAnswered ==
    /\ Returned
    /\ select.ranker = "answered"
    /\ select.selection = <<110, 111, 116, 32, 97, 32, 118, 97, 108, 105, 100, 32, 114, 101, 115, 112, 111, 110, 115, 101>>
    /\ NoUsableIndex
    /\ Len(select.selected) = select.limit

\* C7: with a source cap, the selected list never holds more than
\* max_items_per_source entries of one source group, after any of the passes
C7_SourceCapNeverExceeded ==
    config.max_items_per_source # NoCap =>
        \A i \in 1..Len(select.selected) :
            SourceCount(select.selected, select.selected[i].source_group)
                <= config.max_items_per_source

\* the cap has held an entry back in every pass, in an order the ranker gave:
\* the list returned is short of limit, and an entry deferred by the first pass
\* is left out with its source group at the cap
C7_CapHeldEntryBack ==
    /\ Returned
    /\ select.ranker = "answered"
    /\ config.max_items_per_source # NoCap
    /\ Len(select.selected) < select.limit
    /\ \E i \in 1..Len(select.deferred) :
         /\ select.deferred[i] \notin Range(select.selected)
         /\ SourceCount(select.selected, select.deferred[i].source_group)
              = config.max_items_per_source

\* C8: when the source cap is no bottleneck, select_top_items returns exactly
\* min(limit, len(pool)) entries of a deduplicated pool
C8_ReturnsMinOfLimitAndPool ==
    (Returned /\ CapNotBottleneck(select.entries) /\ Deduplicated(select.entries))
        => Len(select.selected) = Min(select.limit, Len(select.entries))

\* C8 as amended: when the source cap is no bottleneck for the entries that
\* pass the Local News filter (all entries, for another topic) and no two of
\* them are near-duplicates for the selection, in either order,
\* select_top_items returns exactly min(limit, number of those entries)
C8_ReturnsMinOfLimitAndFiltered ==
    (/\ Returned
     /\ CapNotBottleneck(select.filtered_entries)
     /\ \A i, j \in 1..Len(select.filtered_entries) :
          i # j => ~SimilarOnHost(select.filtered_entries[i], select.filtered_entries[j]))
        => Len(select.selected) = Min(select.limit, Len(select.filtered_entries))

\* a capped selection without near-duplicates returns limit entries, fewer
\* than the pool holds, one of them taken by the replay of the deferred ones
C8_FilledByReplay ==
    /\ Returned
    /\ config.max_items_per_source # NoCap
    /\ CapNotBottleneck(select.filtered_entries)
    /\ \A i, j \in 1..Len(select.filtered_entries) :
         i # j => ~SimilarOnHost(select.filtered_entries[i], select.filtered_entries[j])
    /\ Len(select.selected) = select.limit
    /\ select.limit < Len(select.filtered_entries)
    /\ \E i \in 1..Len(select.deferred) : select.deferred[i] \in Range(select.selected)

\* C9: the selected list holds at most limit entries, every one an entry of
\* the pool, and none of them twice
C9_AtMostLimitFromPoolNoRepeats ==
    /\ Len(select.selected) <= select.limit
    /\ \A i \in 1..Len(select.selected) : select.selected[i] \in Range(select.entries)
    /\ \A i, j \in 1..Len(select.selected) :
         i # j => select.selected[i] # select.selected[j]

\* the ranker replied "4,4,9,0" about four entries or more: an index twice,
\* one past the list and a zero; limit entries are returned
C9_RepeatedIndicesAnswered ==
    /\ Returned
    /\ select.selection = <<52, 44, 52, 44, 57, 44, 48>>
    /\ Len(select.ranked_entries) >= 4
    /\ Len(select.selected) = select.limit

\* C10: the selected list never holds two entries of one hostname with a
\* title similarity of 0.86 or more, after any of the passes
C10_NoTwoNearDuplicatesSelected ==
    \A i, j \in 1..Len(select.selected) :
        i # j => ~SimilarOnHost(select.selected[i], select.selected[j])

(***************************************************************************)
(* Properties of the fuzzy path of _register_entry                         *)
(***************************************************************************)

\* the hostname of the record just registered
IncomingHostname == Hostname[last.item.link].hostname

\* the survivors that have the hostname of the record just registered
SameHost == {i \in 1..Len(Survivors) : Survivors[i].hostname = IncomingHostname}

\* the weighted similarity of the record just registered with survivor i is at
\* least 0.82
WeightedMatch(i) ==
    FracGe(StorySimilarity[Story(last.item), Story(Survivors[i].entry)], Frac(82, 100))

\* the publish times of the record just registered and of survivor i are both
\* known and more than the given number of minutes apart
FartherThan(i, minutes) ==
    /\ last.published_dt # NoTime
    /\ Survivors[i].published # NoTime
    /\ AbsDiff(last.published_dt, Survivors[i].published) > minutes

\* the metadata overlap ratio of the record just registered with survivor i is
\* at least 0.65
MetadataMatch(i) ==
    FracGe(metadata_overlap_ratio(StoryMetadata[Story(last.item)], Survivors[i].metadata),
           Frac(65, 100))

\* C11: a record whose canonical URL matches no tracked record and whose
\* hostname no tracked record has is resolved as added, never merged with a
\* record of another hostname
C11_OtherHostnameAdded ==
    (Registered /\ UrlMatch = 0 /\ SameHost = {}) => last.action = "added"

\* C12: a record that matches no tracked record by canonical URL but has a
\* weighted similarity of 0.82 or more with a tracked record of its hostname is
\* resolved as replaced or skipped, whatever the publish times and the compare
\* window
C12_SimilarSameHostIsDuplicate ==
    (Registered /\ UrlMatch = 0 /\ (\E i \in SameHost : WeightedMatch(i))) =>
        last.action \in {"replaced", "skipped"}

\* C12 amended: the same, for a tracked record whose publish time is within
\* compare_window_hours of the incoming record's or when either time is missing
C12_SimilarSameHostInWindowIsDuplicate ==
    (/\ Registered
     /\ UrlMatch = 0
     /\ \E i \in SameHost :
           /\ WeightedMatch(i)
           /\ ~FartherThan(i, Hours(last.compare_window_hours))) =>
        last.action \in {"replaced", "skipped"}

\* C12 witness: a record new to the index, published at another time than a
\* tracked record of 0.82 similarity on its hostname but within the compare
\* window, was resolved as a duplicate of it
C12_FuzzyDuplicateResolved ==
    /\ Registered
    /\ UrlMatch = 0
    /\ \A i \in 1..Len(last.before) : last.before[i].canonical_url # last.item.link
    /\ \E i \in SameHost :
          /\ WeightedMatch(i)
          /\ FartherThan(i, 0)
          /\ ~FartherThan(i, Hours(last.compare_window_hours))
    /\ last.action \in {"replaced", "skipped"}

\* C19: when a tracked record has the canonical URL of the incoming record the
\* call returns replaced or skipped and leaves every other tracked record as
\* it was, in its slot and in its topic's bucket, also when one of them is
\* similar to the incoming record and scores lower
C19_UrlMatchTouchesNoOtherRecord ==
    (Registered /\ UrlMatch # 0) =>
        /\ last.action \in {"replaced", "skipped"}
        /\ Len(seen_entries) = Len(Survivors)
        /\ \A i \in 1..Len(Survivors) \ {UrlMatch} :
               /\ seen_entries[i] = Survivors[i]
               /\ \E bucket \in {entries_by_topic[Survivors[i].entry.topic]} :
                      \E k \in 1..Len(bucket) : bucket[k] = Survivors[i].entry

\* C19 witness: the incoming record has the URL of one tracked record and is
\* similar to, within the compare window of and better than another record
\* tracked before it on the same hostname, which is untouched after the call
C19_SimilarWorseRecordUntouched ==
    /\ Registered
    /\ UrlMatch # 0
    /\ \E i \in SameHost :
          /\ i < UrlMatch
          /\ WeightedMatch(i)
          /\ ~FartherThan(i, Hours(last.compare_window_hours))
          /\ FracGt(_entry_quality_score(last.item),
                    _entry_quality_score(Survivors[i].entry))
          /\ seen_entries[i] = Survivors[i]

\* the latest call resolved a record new to the URL index as a duplicate, which
\* only a fuzzy match does
FuzzyResolved ==
    /\ Registered
    /\ UrlMatch = 0
    /\ \/ last.action = "replaced"
       \/ last.action = "skipped" /\ last.item.link \notin seen_urls

\* survivor i is the record a replacement was made against, or the call
\* replaced nothing
MayBeMatched(i) == last.action = "replaced" => seen_entries[i].entry = last.item

\* both publish times are known and at most 180 minutes apart
Within180(i) ==
    /\ last.published_dt # NoTime
    /\ Survivors[i].published # NoTime
    /\ AbsDiff(last.published_dt, Survivors[i].published) <= 180

\* C20: a record is resolved as a fuzzy duplicate only of a tracked record of
\* its hostname that has a weighted similarity of 0.82 or more with it, or a
\* publish time within 180 minutes of its own and a metadata overlap of 0.65
\* or more, for records without publish time as for the others
C20_LowSimilarityMatchNeedsCloseTime ==
    FuzzyResolved =>
        \E i \in SameHost :
            /\ MayBeMatched(i)
            /\ WeightedMatch(i) \/ (Within180(i) /\ MetadataMatch(i))

\* C20 amended: the time condition is met when the two publish times are at
\* most 180 minutes apart or when either of them is missing
C20_LowSimilarityMatchNeedsCloseOrMissingTime ==
    FuzzyResolved =>
        \E i \in SameHost :
            /\ MayBeMatched(i)
            /\ WeightedMatch(i) \/ (~FartherThan(i, 180) /\ MetadataMatch(i))

\* C20 witness: a record was resolved as a duplicate with no tracked record of
\* 0.82 similarity on its hostname, through one of 0.65 metadata overlap whose
\* publish time or its own is missing
C20_TranslationDuplicateWithoutTime ==
    /\ FuzzyResolved
    /\ \A i \in SameHost : ~WeightedMatch(i)
    /\ \E i \in SameHost :
          /\ MetadataMatch(i)
          /\ last.published_dt = NoTime \/ Survivors[i].published = NoTime

\* C18: a record that matches no tracked record, neither by canonical URL nor
\* by similarity or metadata on its hostname, is resolved as added: a new
\* SeenEntry follows the tracked ones and the record ends its topic's bucket,
\* also when its URL belonged to a record a prune pass has removed
C18_UnmatchedRecordAdded ==
    (/\ Registered
     /\ UrlMatch = 0
     /\ \A i \in SameHost : ~WeightedMatch(i) /\ ~MetadataMatch(i)) =>
        /\ last.action = "added"
        /\ Len(seen_entries) = Len(Survivors) + 1
        /\ seen_entries[Len(seen_entries)].entry = last.item
        /\ \E bucket \in {entries_by_topic[last.item.topic]} :
               bucket # << >> /\ bucket[Len(bucket)] = last.item

(***************************************************************************)
(* Properties of the text and URL functions                                *)
(***************************************************************************)

\* C13: two URLs that differ only in scheme, in tracking query parameters, in
\* a trailing slash on the path or in the fragment have the same canonical
\* form, a path made of slashes only included
C13_VariantsCanonicalizeAlike ==
    (probe.fn = "normalize_url" /\ probe.pc = "returned") =>
        probe.result[1] = probe.result[2]

\* C14: normalize_url raises for no link, so that fetch_feeds is never ended
\* by a malformed link and goes on with the entries that follow it
C14_MalformedLinkNeverAborts == last.action # "raised" /\ loop.pc # "raised"

\* C15: the similarity of every non-empty text with itself is 1.0, a text of
\* punctuation only or of non-Latin letters only included
C15_SimilarityWithItselfIsOne ==
    (/\ probe.fn = "title_similarity"
     /\ probe.pc = "returned"
     /\ probe.args[1] # << >>
     /\ probe.args[1] = probe.args[2]) =>
        probe.result[1] = probe.result[2]

\* C16: _register_entry judges a candidate better than the kept entry exactly
\* when the score select ranks by is strictly greater for the candidate
C16_RegisterJudgesBySelectScore ==
    (probe.fn = "_is_better_entry" /\ probe.pc = "returned") =>
        (probe.result.better <=> FracGt(probe.result.candidate, probe.result.existing))

(***************************************************************************)
(* Properties of the ranking of select_top_items                           *)
(***************************************************************************)

\* the score _rank_entries sorts entry k of ranked_entries by
RankedScore(k) == _entry_score(SelectMeta[select.ranked_entries[k].link])

\* C17: outside Local News the ranking is by score, highest first, and of two
\* entries with the same score the one whose lower-cased title sorts first
\* comes first
C17_TiesRankedByTitleAscending ==
    (select.pc \notin {"idle", "called"} /\ select.topic # LOCAL_NEWS_TOPIC) =>
        \A i \in 1..Len(select.ranked_entries), j \in 1..Len(select.ranked_entries) :
            i < j =>
                /\ FracGe(RankedScore(i), RankedScore(j))
                /\ FracGe(RankedScore(j), RankedScore(i)) =>
                       ~TextLess(lower(select.ranked_entries[j].title),
                                 lower(select.ranked_entries[i].title))

(***************************************************************************)
(* Properties of the effects of _register_entry on the three structures    *)
(***************************************************************************)

\* the number of times a record occurs in a bucket
Occurrences(bucket, entry) == Cardinality({k \in 1..Len(bucket) : bucket[k] = entry})

\* the slot of the record the latest call replaced, 0 when it replaced none
ReplacedSlot ==
    LET hits == {i \in 1..Len(Survivors) :
                    i <= Len(seen_entries) /\ seen_entries[i] # Survivors[i]}
    IN  IF hits = {} THEN 0 ELSE CHOOSE i \in hits : TRUE

\* C21: a call that returns replaced takes the kept record out of its topic's
\* bucket and appends the incoming record at the end of its own topic's
\* bucket; the SeenEntry keeps its slot, the other slots and the number of
\* SeenEntry records stay as the prune pass left them
C21_ReplaceMovesRecordToBucketEnd ==
    (Registered /\ last.action = "replaced") =>
        /\ Len(seen_entries) = Len(Survivors)
        /\ ReplacedSlot # 0
        /\ \A j \in 1..Len(Survivors) \ {ReplacedSlot} : seen_entries[j] = Survivors[j]
        /\ seen_entries[ReplacedSlot].entry = last.item
        /\ \E old \in {Survivors[ReplacedSlot].entry} :
           \E was \in {last.buckets[old.topic]}, now \in {entries_by_topic[old.topic]} :
           \E here \in {entries_by_topic[last.item.topic]} :
              /\ Occurrences(now, old) = Occurrences(was, old) - 1
              /\ here # << >> /\ here[Len(here)] = last.item
              /\ IF old.topic = last.item.topic
                 THEN Len(here) = Len(was)
                 ELSE /\ Len(now) = Len(was) - 1
                      /\ here = Append(last.buckets[last.item.topic], last.item)

\* C21 witness: a replacement moved the story from one topic's bucket to the
\* end of another's, behind a record that was there before
C21_ReplacedAcrossTopics ==
    /\ Registered
    /\ last.action = "replaced"
    /\ ReplacedSlot # 0
    /\ Survivors[ReplacedSlot].entry.topic # last.item.topic
    /\ Len(entries_by_topic[last.item.topic]) > 1

\* the places of the buckets that hold a record: topic and position
Held == UNION {{<<t, k>> : k \in 1..Len(entries_by_topic[t])} : t \in TopicNames}

RECURSIVE TotalOver(_, _)
TotalOver(buckets, topics) ==
    IF topics = {} THEN 0
    ELSE With(CHOOSE t \in topics : TRUE, LAMBDA t :
             Len(buckets[t]) + TotalOver(buckets, topics \ {t}))

\* C27: a call that returns added raises the number of records in the
\* buckets by one, a replaced call takes one record out and appends one and
\* leaves the number as it was, a skipped call leaves every bucket as it was;
\* so the number is the number of added calls, and every record is in the
\* bucket of its topic
C27_BucketsCountAddedCalls ==
    /\ \A slot \in Held : entries_by_topic[slot[1]][slot[2]].topic = slot[1]
    /\ last.action # "none" =>
          /\ TotalOver(entries_by_topic, TopicNames)
                = TotalOver(last.buckets, TopicNames) + (IF last.action = "added" THEN 1 ELSE 0)
          /\ last.action = "skipped" => entries_by_topic = last.buckets
          /\ last.action = "replaced" =>
                \E t \in TopicNames : \E k \in 1..Len(last.buckets[t]) :
                    entries_by_topic
                      = [[last.buckets EXCEPT ![t] = RemoveFirst(@, last.buckets[t][k])]
                           EXCEPT ![last.item.topic] = Append(@, last.item)]
          /\ last.action = "added" =>
                entries_by_topic
                  = [last.buckets EXCEPT ![last.item.topic] = Append(@, last.item)]

\* C27 witness: three calls, the first one added, the second one replaced and
\* moved the story to the other topic's bucket, the third one skipped; the
\* buckets hold one record
C27_AddedReplacedSkipped ==
    /\ Registered
    /\ calls = 3
    /\ last.action = "skipped"
    /\ TotalOver(entries_by_topic, TopicNames) = 1
    /\ Len(seen_entries) = 1
    /\ seen_entries[1].entry.topic # last.item.topic

\* C28: a call that returns skipped leaves seen_urls and every bucket as it
\* found them, and leaves in seen_entries the records its prune pass kept,
\* each as it was and in its place
C28_SkippedChangesOnlyByPruning ==
    (Registered /\ last.action = "skipped") =>
        /\ seen_urls = last.urls
        /\ entries_by_topic = last.buckets
        /\ seen_entries = Survivors

\* C28 witness: a skipped call whose prune pass removed one SeenEntry and
\* kept another, which the incoming record was matched with
C28_SkippedAfterPruning ==
    /\ Registered
    /\ last.action = "skipped"
    /\ Survivors # << >>
    /\ Len(Survivors) < Len(last.before)
    /\ last.item.link \notin last.urls

(***************************************************************************)
(* Properties of the prune pass within one run of fetch_feeds               *)
(***************************************************************************)

\* the latest entry of the feed loop was handed to _register_entry
HandedToRegister == last.action \in {"added", "replaced", "skipped"}

\* C29: in a run of fetch_feeds that is no dry run, a record handed to
\* _register_entry has a publish time, not before now less the lookback of
\* its topic; now is the one instant of the run and the prune window is the
\* largest lookback of the topics; the prune pass removes no SeenEntry, and
\* every tracked SeenEntry is within the lookback of the topic it came in with
C29_NoPruningWithinRun ==
    ~config.dry_run =>
        /\ HandedToRegister =>
              /\ last.published_dt # NoTime
              /\ last.published_dt >= last.now - Hours(last.compare_window_hours)
              /\ last.now = clock
              /\ \E t \in 1..Len(Topics) :
                    /\ Topics[t].name = last.item.topic
                    /\ Topics[t].lookback_hours = last.compare_window_hours
              /\ \A t \in 1..Len(Topics) : Topics[t].lookback_hours <= last.prune_window_hours
              /\ \E t \in 1..Len(Topics) : Topics[t].lookback_hours = last.prune_window_hours
              /\ Survivors = last.before
        /\ \A i \in 1..Len(seen_entries) : \E t \in 1..Len(Topics) :
              /\ Topics[t].name = seen_entries[i].entry.topic
              /\ seen_entries[i].published # NoTime
              /\ seen_entries[i].published >= clock - Hours(Topics[t].lookback_hours)

\* C29 witness: a record of the topic with the short lookback is registered
\* while a SeenEntry older than that lookback is tracked, and the SeenEntry
\* stays
C29_OlderRecordOutlivesShortLookback ==
    /\ ~config.dry_run
    /\ HandedToRegister
    /\ last.compare_window_hours < last.prune_window_hours
    /\ \E i \in 1..Len(last.before) :
          /\ last.before[i].published < last.now - Hours(last.compare_window_hours)
          /\ i <= Len(seen_entries)
          /\ seen_entries[i].canonical_url = last.before[i].canonical_url

(***************************************************************************)
(* Properties of the first loop of _apply_selection_constraints            *)
(***************************************************************************)

\* the first loop of _apply_selection_constraints has run
FirstPassDone == select.pc = "first"

\* the position of an entry in the candidate order, 0 when it is not there
PoolPosition(entry) ==
    FirstIndex(select.candidate_pool, LAMBDA candidate : candidate = entry)

\* the accepted entries that precede position p of the candidate order
AcceptedBefore(p) ==
    {k \in 1..Len(select.selected) : PoolPosition(select.selected[k]) < p}

\* the entry at position p of the candidate order met domain_diversity_cap
\* accepted entries of its hostname, and a candidate of another hostname
\* comes later in the order
HostnameFull(p) ==
    /\ Cardinality({k \in AcceptedBefore(p) :
                      HostnameOf[select.selected[k].link]
                        = HostnameOf[select.candidate_pool[p].link]}) >= diversity_cap
    /\ \E j \in (p + 1)..Len(select.candidate_pool) :
          HostnameOf[select.candidate_pool[j].link] # HostnameOf[select.candidate_pool[p].link]

\* C22: the first loop never accepts an entry whose hostname already has
\* domain_diversity_cap accepted entries while a candidate of another
\* hostname comes later in the candidate order, whatever the limit
C22_FullHostnameNeverAccepted ==
    FirstPassDone =>
        \A k \in 1..Len(select.selected) : ~HostnameFull(PoolPosition(select.selected[k]))

\* C22 amended: the same, for an entry met while fewer than 5 are accepted
C22_FullHostnameNotAcceptedBelowFive ==
    FirstPassDone =>
        \A k \in 1..Len(select.selected) :
            k - 1 < 5 => ~HostnameFull(PoolPosition(select.selected[k]))

\* C22 witness: with a limit above 5, the first loop left out an entry that
\* no other rule stops (no similar title or source cap among the accepted,
\* no quality flag) because its hostname was full
C22_DeferredForDiversity ==
    /\ FirstPassDone
    /\ select.limit > 5
    /\ \E p \in 1..Len(select.candidate_pool) :
       \E entry \in {select.candidate_pool[p]} :
       \E before \in {SelectSeq(select.selected, LAMBDA e : PoolPosition(e) < p)} :
          /\ HostnameFull(p)
          /\ entry \in Range(select.deferred)
          /\ Len(before) < select.limit
          /\ ~_is_near_duplicate(entry, before)
          /\ ~_hits_source_cap(entry, before, config.max_items_per_source)
          /\ ~SelectMeta[entry.link].is_low_info
          /\ ~SelectMeta[entry.link].is_admin

\* _entry_meta flags the entry low-information or administrative
Flagged(entry) == SelectMeta[entry.link].is_low_info \/ SelectMeta[entry.link].is_admin

\* the near-duplicate rule or the source cap keeps the entry out of the result
ExcludedFromResult(entry) ==
    \/ _is_near_duplicate(entry, select.selected)
    \/ _hits_source_cap(entry, select.selected, config.max_items_per_source)

\* C23: a result that holds a flagged entry holds every unflagged entry of the
\* pool that the near-duplicate rule and the source cap do not keep out
C23_FlaggedOnlyWhenNeeded ==
    (Returned /\ \E k \in 1..Len(select.selected) : Flagged(select.selected[k])) =>
        \A i \in 1..Len(select.entries) :
            \E entry \in {select.entries[i]} :
                \/ entry \in Range(select.filtered_entries) /\ Flagged(entry)
                \/ entry \in Range(select.selected)
                \/ entry \in Range(select.filtered_entries) /\ ExcludedFromResult(entry)

\* C23 amended: a result that holds a flagged entry holds every unflagged
\* entry that passes the Local News filter, but for those the near-duplicate
\* rule and the source cap keep out and those the first loop deferred
C23_FlaggedOnlyWhenNeededOrDeferred ==
    (Returned /\ \E k \in 1..Len(select.selected) : Flagged(select.selected[k])) =>
        \A i \in 1..Len(select.filtered_entries) :
            \E entry \in {select.filtered_entries[i]} :
                \/ Flagged(entry)
                \/ entry \in Range(select.selected)
                \/ ExcludedFromResult(entry)
                \/ entry \in Range(select.deferred)

\* C23 witness: the result holds a flagged entry and every unflagged entry
\* but one, which has a similar title to one of the result; the first loop
\* deferred no unflagged entry
C23_FlagRelaxedToReachLimit ==
    /\ Returned
    /\ \E k \in 1..Len(select.selected) : Flagged(select.selected[k])
    /\ \A i \in 1..Len(select.deferred) : Flagged(select.deferred[i])
    /\ \E i \in 1..Len(select.filtered_entries) :
          /\ ~Flagged(select.filtered_entries[i])
          /\ select.filtered_entries[i] \notin Range(select.selected)
          /\ _is_near_duplicate(select.filtered_entries[i], select.selected)
    /\ \E i \in 1..Len(select.selected) : ~Flagged(select.selected[i])

\* C25: called with no more entries than limit, select_top_items never asks
\* the ranker, and what it returns is what the three loops of
\* _apply_selection_constraints give on the quality-ranked entries
C25_SmallPoolSkipsRankerKeepsConstraints ==
    Len(select.entries) <= select.limit =>
        /\ select.ranker = "none"
        /\ select.pc # "raised"
        /\ select.pc \in {"chosen", "first", "deferred", "returned"}
              => select.chosen = select.ranked_entries
        /\ select.pc \in {"first", "deferred", "returned"}
              => select.candidate_pool = select.ranked_entries
        /\ Returned => select.selected = QualityOrderResult

\* C25 witness: a pool of no more entries than limit is returned without a
\* word from the ranker, one entry dropped for its similar title and one
\* taken from the deferred ones
C25_SmallPoolConstrained ==
    /\ Returned
    /\ select.entries # << >>
    /\ Len(select.entries) <= select.limit
    /\ select.ranker = "none"
    /\ Len(select.selected) < Len(select.filtered_entries)
    /\ \E i \in 1..Len(select.deferred) : select.deferred[i] \in Range(select.selected)

(***************************************************************************)
(* Properties of _parse_selection                                          *)
(***************************************************************************)

\* _parse_selection has returned
Parsed == probe.fn = "_parse_selection" /\ probe.pc = "returned"

\* the indices of the response that lie in 1..total, each once, in the order
\* of the response
ValidIndices(response, total) ==
    With(SelectionCandidates(response), LAMBDA candidates :
        SelectSeq([k \in 1..Len(candidates) |->
                     IF /\ candidates[k] \in 1..total
                        /\ \A j \in 1..(k - 1) : candidates[j] # candidates[k]
                     THEN candidates[k] ELSE 0],
                  LAMBDA number : number # 0))

\* the indices of 1..total that are not in taken, ascending
UnusedIndices(taken, total) ==
    SelectSeq([number \in 1..total |-> number], LAMBDA number : number \notin Range(taken))

\* C24: _parse_selection returns min(limit, total) indices, distinct and in
\* 1..total: the valid indices of the response in its order, then the lowest
\* unused indices ascending
C24_ParserReturnsMinOfLimitAndTotal ==
    Parsed =>
        \E total \in {probe.args[2]}, limit \in {probe.args[3]}, indices \in {probe.result} :
        \E valid \in {ValidIndices(probe.args[1], total)} :
            /\ Len(indices) = Min(limit, total)
            /\ \A i \in 1..Len(indices) : indices[i] \in 1..total
            /\ \A i, j \in 1..Len(indices) : i # j => indices[i] # indices[j]
            /\ indices = Prefix(valid \o UnusedIndices(valid, total), Min(limit, total))

(***************************************************************************)
(* Properties of OpenAIClient._post_with_retries                           *)
(***************************************************************************)

\* the call has returned a response or raised
PostEnded == probe.pc \in {"returned", "raised"}

\* C30, in every state: no more than max(max_retries, 0) + 1 requests are
\* sent; a back-off is taken only before the last attempt, after a timeout
\* only with retry_on_timeout set, after a response only for a retryable
\* status; the last attempt, once its request is answered, has returned its
\* response or raised; the raise after the loop is never reached
PostWithinAttempts ==
    /\ probe.result.posts <= max_attempts
    /\ probe.result.posts \in {probe.result.attempt - 1, probe.result.attempt}
    /\ probe.pc = "backoff" =>
          /\ probe.result.attempt < max_attempts
          /\ probe.result.event = "timeout" => probe.args.retry_on_timeout
          /\ probe.result.event = "response" => probe.result.status \in retryable_statuses
    /\ (probe.result.attempt = max_attempts /\ probe.result.posts = max_attempts)
          => probe.pc \in {"post", "returned", "raised"}
    /\ probe.pc = "returned" => probe.result.event = "response"
    /\ probe.result.event # "exhausted"

\* C30: _post_with_retries always ends, by returning a response or raising,
\* and all the way there it keeps within max(max_retries, 0) + 1 requests
C30_PostEndsWithinAttempts == []PostWithinAttempts /\ <>PostEnded

\* C30 witness: with retry_on_timeout set, a timeout and then retryable
\* statuses were retried up to the last attempt, whose retryable status was
\* returned
C30_LastAttemptReturnsRetryableStatus ==
    /\ probe.fn = "_post_with_retries"
    /\ probe.pc = "returned"
    /\ probe.args.max_retries >= 2
    /\ probe.result.posts = max_attempts
    /\ probe.result.status \in retryable_statuses
    /\ probe.result.slept > 0

====
